---- MODULE Spec2Model ----
(***************************************************************************)
(* State-machine model of the restaurant-merger pipeline.                  *)
(*                                                                         *)
(*   Script/01_clean_and_merge.py    : the clean-and-merge run (Spec)      *)
(*   Script/07_generate_2025_data.py : the 2025 generator, sections 1 to   *)
(*                                     4 (SpecGen)                         *)
(*                                                                         *)
(* A DataFrame is a record [cols, rows]: cols is the ordered column list,  *)
(* rows is the sequence of rows.  A row is a function from the *tracked*   *)
(* column names it carries to cells; the other columns of the extracts are *)
(* carried by name only (their values take part in no step that the        *)
(* script computes on).  A cell is a tagged value, as a pandas object cell *)
(* is: a string, an integer, a float, a timestamp, a time, or a missing    *)
(* value (NaN / NaT / <NA>).                                               *)
(***************************************************************************)
EXTENDS Integers, Sequences, FiniteSets, TLC

(***************************************************************************)
(* Cells                                                                   *)
(***************************************************************************)
NaN == [k |-> "NaN"]
NaT == [k |-> "NaT"]
NA  == [k |-> "NA"]
Str(s)         == [k |-> "str", s |-> s]
Num(n)         == [k |-> "num", v |-> n]
Flt(tenths)    == [k |-> "flt", v10 |-> tenths]
Ts(y, m, d)    == [k |-> "ts", y |-> y, m |-> m, d |-> d]
Tm(h, m, s, us) == [k |-> "time", h |-> h, m |-> m, s |-> s, us |-> us]
HM(h, m)       == [k |-> "hm", h |-> h, m |-> m]

\* pd.isna / pd.notna on a scalar
IsNa(c)  == c.k \in {"NaN", "NaT", "NA"}
NotNa(c) == ~IsNa(c)

(***************************************************************************)
(* Text that the parsers meet in the extracts.  A string cell is parsed by *)
(* looking its text up here; any other text does not parse.                *)
(***************************************************************************)
DateText == [s \in {"2018-03-05", "1970-01-01"} |->
               IF s = "2018-03-05" THEN Ts(2018, 3, 5) ELSE Ts(1970, 1, 1)]

\* 'HH:MM:SS'-shaped texts and their three number fields
TimeText == [s \in {"09:30:00", "25:00:00"} |->
               IF s = "09:30:00" THEN <<9, 30, 0>> ELSE <<25, 0, 0>>]

\* texts that denote a number: an integer, or a number with a fraction
NumText == [s \in {"1002", "12.5"} |->
              IF s = "1002" THEN Num(1002) ELSE Flt(125)]

(***************************************************************************)
(* Pure conversions of 01_clean_and_merge.py                               *)
(***************************************************************************)
\* pd.to_datetime(cell, errors='coerce') without a format: a timestamp is kept,
\* an integer n is n nanoseconds after the epoch (an Excel serial number such
\* as 43101 therefore lands on 1970-01-01), a date text is parsed, anything
\* else (other text, a missing value) is NaT.
\* (The integers of a date column are Excel day serials, far below the
\* 86,400,000,000,000 ns of one day.)
to_datetime(c) ==
    CASE c.k = "ts"  -> c
      [] c.k = "num" -> Ts(1970, 1, 1)
      [] c.k = "str" -> IF c.s \in DOMAIN DateText THEN DateText[c.s] ELSE NaT
      [] OTHER       -> NaT

\* Series.dt.year / .dt.month : NaN on NaT
dt_year(c)  == IF c.k = "ts" THEN Num(c.y) ELSE NaN
dt_month(c) == IF c.k = "ts" THEN Num(c.m) ELSE NaN

MonthNames == << "January", "February", "March", "April", "May", "June", "July",
                 "August", "September", "October", "November", "December" >>
\* Series.dt.strftime('%B') : NaN on NaT
strftime_B(c) == IF c.k = "ts" THEN Str(MonthNames[c.m]) ELSE NaN

\* bad_date_mask = abc['order_purchase_date'].dt.year == 1970 (NaN == 1970 is False)
bad_date_mask(c) == dt_year(c) = Num(1970)

\* pd.to_numeric(cell, errors='coerce')
to_numeric(c) ==
    CASE c.k = "num" -> c
      [] c.k = "flt" -> c
      [] c.k = "str" -> IF c.s \in DOMAIN NumText THEN NumText[c.s] ELSE NaN
      [] OTHER       -> NaN

\* .astype('Int64') of a float column: NaN becomes <NA>, an integer stays, a
\* value with a fraction cannot be cast (TypeError for the whole column)
Int64Raises(c) == c.k = "flt"
astype_Int64(c) == IF c.k = "num" THEN c ELSE NA

\* the ABC map with a misspelt target: 'salad' -> 'Salad'
category_map_abc_typo ==
    [s \in {"salad", "Pasta", "Pizza", "Sandwich", "Appetizers", "Beverages"} |->
       CASE s = "salad"      -> "Salad"
         [] s = "Pasta"      -> "Pasta"
         [] s = "Pizza"      -> "Pizza"
         [] s = "Sandwich"   -> "Sandwiches"
         [] s = "Appetizers" -> "Appetizers"
         [] s = "Beverages"  -> "Beverages"]

\* the ABC map repairing in two steps: title case first, the plural after
category_map_abc_chained ==
    [s \in {"salad", "Salad", "Pasta", "Pizza", "Sandwich", "Appetizers",
            "Beverages"} |->
       CASE s = "salad"      -> "Salad"
         [] s = "Salad"      -> "Salads"
         [] s = "Pasta"      -> "Pasta"
         [] s = "Pizza"      -> "Pizza"
         [] s = "Sandwich"   -> "Sandwiches"
         [] s = "Appetizers" -> "Appetizers"
         [] s = "Beverages"  -> "Beverages"]

category_map_abc ==
    [s \in {"salad", "Pasta", "Pizza", "Sandwich", "Appetizers", "Beverages"} |->
       CASE s = "salad"      -> "Salads"
         [] s = "Pasta"      -> "Pasta"
         [] s = "Pizza"      -> "Pizza"
         [] s = "Sandwich"   -> "Sandwiches"
         [] s = "Appetizers" -> "Appetizers"
         [] s = "Beverages"  -> "Beverages"]

\* the XYZ map without its singular -> plural repair
category_map_xyz_singular ==
    [s \in {"Pizza", "Dessert", "Appetizers", "Salads", "Pasta", "Sandwiches",
            "Beverage"} |-> s]

category_map_xyz ==
    [s \in {"Pizza", "Dessert", "Appetizers", "Salads", "Pasta", "Sandwiches",
            "Beverage"} |->
       CASE s = "Pizza"      -> "Pizza"
         [] s = "Dessert"    -> "Dessert"
         [] s = "Appetizers" -> "Appetizers"
         [] s = "Salads"     -> "Salads"
         [] s = "Pasta"      -> "Pasta"
         [] s = "Sandwiches" -> "Sandwiches"
         [] s = "Beverage"   -> "Beverages"]

\* Series.map(mapping): a value that is no key of the mapping (a missing value
\* included) becomes NaN
map_dict(mapping, c) ==
    IF c.k = "str" /\ c.s \in DOMAIN mapping THEN Str(mapping[c.s]) ELSE NaN

\* Series.fillna(other): a missing value is replaced by the other series' value
fillna(c, other) == IF IsNa(c) THEN other ELSE c

\* series.map(mapping).fillna(series)
map_category(mapping, c) == fillna(map_dict(mapping, c), c)

\* .astype(str) of a time cell: 'HH:MM:SS' for a time without microseconds,
\* 'HH:MM:SS.ffffff' with them, the text itself for text, 'nan' for NaN.
\* The result is <<h, m, s>> when the text has the shape %H:%M:%S and <<>>
\* when it has not.
astype_str_hms(c) ==
    CASE c.k = "time" -> IF c.us = 0 THEN <<c.h, c.m, c.s>> ELSE <<>>
      [] c.k = "str"  -> IF c.s \in DOMAIN TimeText THEN TimeText[c.s] ELSE <<>>
      [] OTHER        -> <<>>

\* pd.to_datetime(text, format='%H:%M:%S', errors='coerce').dt.strftime('%H:%M')
\* : the text 'HH:MM' (seconds cut off), or NaN where the parse gave NaT
standardise_time(c) ==
    LET t == astype_str_hms(c)
    IN  IF t # <<>> /\ t[1] \in 0..23 /\ t[2] \in 0..59 /\ t[3] \in 0..59
        THEN HM(t[1], t[2])
        ELSE NaN

\* the comparison written with <= : noon counts as morning
time_of_day_abc_le(t) == IF NotNa(t) /\ t.h <= 12 THEN Str("AM") ELSE Str("PM")

\* 3e: lambda t: 'AM' if pd.notna(t) and int(t.split(':')[0]) < 12 else 'PM'
time_of_day_abc(t) == IF NotNa(t) /\ t.h < 12 THEN Str("AM") ELSE Str("PM")

\* 4e: the same lambda, written a second time for XYZ
time_of_day_xyz(t) == IF NotNa(t) /\ t.h < 12 THEN Str("AM") ELSE Str("PM")

\* get_season without its isna guard: an unknown month falls through to 'Fall'
get_season_unguarded(month) ==
    IF IsNa(month) THEN Str("Fall")
    ELSE LET m == month.v
         IN  IF m \in {12, 1, 2} THEN Str("Winter")
             ELSE IF m \in {3, 4, 5} THEN Str("Spring")
             ELSE IF m \in {6, 7, 8} THEN Str("Summer")
             ELSE Str("Fall")

\* a get_season whose winter lacks December
get_season_short_winter(month) ==
    IF IsNa(month) THEN NaN
    ELSE LET m == month.v
         IN  IF m \in {1, 2} THEN Str("Winter")
             ELSE IF m \in {3, 4, 5} THEN Str("Spring")
             ELSE IF m \in {6, 7, 8} THEN Str("Summer")
             ELSE Str("Fall")

get_season(month) ==
    IF IsNa(month) THEN NaN
    ELSE LET m == month.v
         IN  IF m \in {12, 1, 2} THEN Str("Winter")
             ELSE IF m \in {3, 4, 5} THEN Str("Spring")
             ELSE IF m \in {6, 7, 8} THEN Str("Summer")
             ELSE Str("Fall")

(***************************************************************************)
(* DataFrames                                                              *)
(***************************************************************************)
\* the columns whose values the model carries
Tracked == {"chain", "customer_id", "order_purchase_date", "order_purchase_time", "item_category",
            "order_number", "item_product_cost", "time_of_day", "order_month",
            "order_month_name", "order_year", "season", "restaurant_id",
            "item_number"}

Range(q) == {q[i] : i \in 1..Len(q)}
HasCol(t, c) == c \in Range(t.cols)

EmptyFrame == [cols |-> <<>>, rows |-> <<>>]

\* df[c] = <value computed from the row>: an existing column keeps its place,
\* a new one is appended
SetCol(t, c, F(_)) ==
    [cols |-> IF HasCol(t, c) THEN t.cols ELSE Append(t.cols, c),
     rows |-> [i \in 1..Len(t.rows) |->
                 [x \in DOMAIN t.rows[i] \cup {c} |->
                    IF x = c THEN F(t.rows[i]) ELSE t.rows[i][x]]]]

\* df[c] = ... for a column the model carries by name only
SetColByName(t, c) ==
    [cols |-> IF HasCol(t, c) THEN t.cols ELSE Append(t.cols, c), rows |-> t.rows]

\* df.drop(columns=[c])
DropCol(t, c) ==
    [cols |-> SelectSeq(t.cols, LAMBDA x : x # c),
     rows |-> [i \in 1..Len(t.rows) |->
                 [x \in DOMAIN t.rows[i] \ {c} |-> t.rows[i][x]]]]

\* df[cols].copy(): exactly the listed columns, in the listed order
SelectCols(t, cols) ==
    [cols |-> cols,
     rows |-> [i \in 1..Len(t.rows) |->
                 [x \in DOMAIN t.rows[i] \cap Range(cols) |-> t.rows[i][x]]]]

\* a selection that never raises (as df.reindex(columns=cols) would behave)
SelectNeverRaises(t, cols) == FALSE

\* df[cols] raises KeyError when a listed column is absent
SelectRaises(t, cols) == \E i \in 1..Len(cols) : ~HasCol(t, cols[i])

\* the values of column c, with repetitions / without
ColCells(t, c) == [i \in 1..Len(t.rows) |-> t.rows[i][c]]
Unique(t, c) == {t.rows[i][c] : i \in 1..Len(t.rows)}

\* sorted(series.unique()) raises TypeError when it has to compare NaN (a
\* float) with a string; a single value needs no comparison
SortedRaises(vals) ==
    /\ Cardinality(vals) > 1
    /\ \E v \in vals : v.k # "str"

\* number of rows of the frame for which P holds
CountRows(t, P(_)) == Cardinality({i \in 1..Len(t.rows) : P(t.rows[i])})

\* round(n / total * 100, 2) in hundredths of a percent (to the nearest
\* hundredth); n / 0 is nan
Pct(n, total) ==
    IF total = 0 THEN NaN ELSE Num((n * 20000 + total) \div (2 * total))

(***************************************************************************)
(* Column layouts                                                          *)
(***************************************************************************)
\* the columns of the two extracts (ABC.xlsx and XYZ.xlsx)
RawColsABC ==
    << "customer_id", "order_number", "item_number", "item_description",
       "item_code", "item_category", "quantity", "menu_price", "item_total_cost",
       "Profit", "order_total_cost", "coupon_y_n", "order_purchase_date",
       "order_purchase_time", "restaurant_id", "restaurant_city",
       "restaurant_state", "restaurant_zip_code", "order_purchase_method",
       "order_alcohol_purchased", "gender_customer_payee",
       "customer_with_children" >>

RawColsXYZ == Append(RawColsABC, "item_product_cost")

shared_cols ==
    << "chain", "customer_id", "order_number", "restaurant_id",
       "restaurant_city", "restaurant_state", "restaurant_zip_code",
       "order_purchase_date", "order_purchase_time", "time_of_day",
       "order_month", "order_month_name", "order_year", "season",
       "order_purchase_method", "coupon_used", "alcohol_purchased",
       "gender", "has_children",
       "item_number", "item_description", "item_code", "item_category",
       "quantity", "menu_price", "item_total_cost", "Profit",
       "order_total_cost" >>

(***************************************************************************)
(* The run of 01_clean_and_merge.py                                        *)
(***************************************************************************)
VARIABLES
    pc,         \* the section of the script that runs next; "done" / "error"
    err,        \* <<exception, section>> that ended the run; <<>> while none
    abc_raw,    \* the ABC extract as read
    xyz_raw,    \* the XYZ extract as read
    abc,        \* working copy of ABC
    xyz,        \* working copy of XYZ
    abc_clean,  \* abc[shared_cols]
    xyz_clean,  \* xyz[shared_cols]
    merged,     \* the merged frame
    have,       \* which of abc_clean, xyz_clean, merged are bound so far
    log_lines,  \* the messages passed to log(), in order
    files,      \* the files of DATA_OUT written by this run: name -> content
    \* ---- the run of 07_generate_2025_data.py ----
    gen_pc,       \* the section of the generator that runs next
    gen_err,      \* <<exception, section>> that ended the generator; <<>> while none
    gen_abc,      \* abc_clean.csv as read
    gen_xyz,      \* xyz_clean.csv as read
    abc_2025,     \* update_to_2025(abc, 'ABC')
    xyz_2025,     \* update_to_2025(xyz, 'XYZ')
    merged_2025,  \* the merged 2025 frame
    gen_files,    \* the CSV files written by the generator: name -> content
    \* ---- a store and the loader runs against it ----
    loader,       \* the script that loads this store: "02" or "07"
    db_pc,        \* the statement of the loader that runs next
    db_err,       \* <<exception, table>> that ended the run; <<>> while none
    db_in,        \* the frame the run loads (df of 02, merged_2025 of 07)
    db,           \* the committed content of the store: table name -> table
    db_prev,      \* the content of the store when the run connected
    db_runs,      \* number of loader runs started against the store
    \* ---- a category value under the vocabulary map ----
    voc_chain,    \* the source whose mapping table is applied
    voc_raw,      \* the value before any application
    voc_val,      \* the value as it stands
    voc_n,        \* number of applications so far
    \* ---- the run of 04_generate_report.py ----
    rep_pc,         \* the section of the report generator that runs next
    rep_err,        \* <<exception, section>> that ended the run; <<>> while none
    results,        \* the results of the queries of section [1]
    outputs,        \* the files of OUTPUT_DIR the run can find (forecast CSV, charts)
    forecast_df,    \* the forecast table as read; None when there is no file
    total_forecast, \* the sum of its 'Forecast ($M)' column, in tenths; 0 without a file
    doc,            \* the elements added to the document, in order
    report          \* Part_One_Report_2025.docx as saved; <<>> until then

vars01 == << pc, err, abc_raw, xyz_raw, abc, xyz, abc_clean, xyz_clean, merged,
             have, log_lines, files >>
vars07 == << gen_pc, gen_err, gen_abc, gen_xyz, abc_2025, xyz_2025, merged_2025,
             gen_files >>
varsDb == << loader, db_pc, db_err, db_in, db, db_prev, db_runs >>
varsVoc == << voc_chain, voc_raw, voc_val, voc_n >>
varsRep == << rep_pc, rep_err, results, outputs, forecast_df, total_forecast, doc,
              report >>
vars == << vars01, vars07, varsDb, varsVoc, varsRep >>

Msg(tag, data) == [tag |-> tag, data |-> data]

\* the outcome of a piece of the script: the exception it raised ("" if none),
\* the frame as it stands when the piece ends or raises, the messages logged
Outcome(e, t, l) == [err |-> e, t |-> t, log |-> l]

\* run the next piece unless an earlier one has raised
Then(res, Step(_)) ==
    IF res.err # "" THEN res
    ELSE LET n == Step(res.t)
         IN  Outcome(n.err, n.t, res.log \o n.log)

\* calendar order of two timestamps, and the min()/max() of a datetime column
\* (NaT is skipped; NaT when nothing is left)
DateLE(a, b) ==
    \/ a.y < b.y
    \/ a.y = b.y /\ a.m < b.m
    \/ a.y = b.y /\ a.m = b.m /\ a.d <= b.d
KnownDates(t) == {c \in Unique(t, "order_purchase_date") : c.k = "ts"}
date_min(t) ==
    IF KnownDates(t) = {} THEN NaT
    ELSE CHOOSE a \in KnownDates(t) : \A b \in KnownDates(t) : DateLE(a, b)
date_max(t) ==
    IF KnownDates(t) = {} THEN NaT
    ELSE CHOOSE a \in KnownDates(t) : \A b \in KnownDates(t) : DateLE(b, a)

\* a null count that misses NaT and <NA>
NullCount_nan_only(t, c) == Cardinality({i \in 1..Len(t.rows) : t.rows[i][c].k = "NaN"})

\* merged.isnull().sum() for one column
NullCount(t, c) == Cardinality({i \in 1..Len(t.rows) : IsNa(t.rows[i][c])})

(*------------------------- 3. CLEAN ABC ---------------------------------*)
\* 3a. to_datetime, then rows of year 1970 are reset to NaT and counted
Step3a(t) ==
    IF ~HasCol(t, "order_purchase_date") THEN Outcome("KeyError", t, <<>>)
    ELSE
    LET parsed == SetCol(t, "order_purchase_date",
                         LAMBDA r : to_datetime(r.order_purchase_date))
        n_bad  == CountRows(parsed, LAMBDA r : bad_date_mask(r.order_purchase_date))
        fixed  == SetCol(parsed, "order_purchase_date",
                         LAMBDA r : IF bad_date_mask(r.order_purchase_date)
                                    THEN NaT ELSE r.order_purchase_date)
    IN  Outcome("", fixed,
                << Msg("DATE_CORRUPT", <<n_bad>>),
                   Msg("DATE_CORRUPT_PCT", <<Pct(n_bad, Len(t.rows))>>) >>)

\* 3b. order_number -> Int64
Step3b(t) ==
    IF ~HasCol(t, "order_number") THEN Outcome("KeyError", t, <<>>)
    ELSE IF \E i \in 1..Len(t.rows) : Int64Raises(to_numeric(t.rows[i].order_number))
    THEN Outcome("TypeError", t, <<>>)
    ELSE Outcome("",
                 SetCol(t, "order_number",
                        LAMBDA r : astype_Int64(to_numeric(r.order_number))),
                 << Msg("DTYPE", <<>>) >>)

\* 3c. item_category through category_map_abc; the sorted distinct values are logged
Step3c(t) ==
    IF ~HasCol(t, "item_category") THEN Outcome("KeyError", t, <<>>)
    ELSE
    LET mapped == SetCol(t, "item_category",
                         LAMBDA r : map_category(category_map_abc, r.item_category))
    IN  IF SortedRaises(Unique(mapped, "item_category"))
        THEN Outcome("TypeError", mapped, <<>>)
        ELSE Outcome("", mapped,
                     << Msg("CATEGORY_ABC", Unique(mapped, "item_category")) >>)

\* 3d. order_purchase_time -> 'HH:MM'
Step3d(t) ==
    IF ~HasCol(t, "order_purchase_time") THEN Outcome("KeyError", t, <<>>)
    ELSE Outcome("",
                 SetCol(t, "order_purchase_time",
                        LAMBDA r : standardise_time(r.order_purchase_time)),
                 <<>>)

\* 3e. time_of_day
Step3e(t) ==
    Outcome("",
            SetCol(t, "time_of_day", LAMBDA r : time_of_day_abc(r.order_purchase_time)),
            <<>>)

\* 3f / 4e. order_month, order_month_name, order_year, season
DeriveDateCols(t) ==
    LET t1 == SetCol(t,  "order_month",      LAMBDA r : dt_month(r.order_purchase_date))
        t2 == SetCol(t1, "order_month_name", LAMBDA r : strftime_B(r.order_purchase_date))
        t3 == SetCol(t2, "order_year",       LAMBDA r : dt_year(r.order_purchase_date))
    IN  SetCol(t3, "season", LAMBDA r : get_season(r.order_month))

Step3f(t) == Outcome("", DeriveDateCols(t), <<>>)

\* df[dst] = df[src].map(...) / df[dst] = df[src] for the label columns
Label(t, src, dst) ==
    IF HasCol(t, src) THEN Outcome("", SetColByName(t, dst), <<>>)
    ELSE Outcome("KeyError", t, <<>>)

\* 3g / 4e. readable labels
ReadableLabels(t) ==
    Then(Then(Then(Label(t, "coupon_y_n", "coupon_used"),
                   LAMBDA u : Label(u, "order_alcohol_purchased", "alcohol_purchased")),
              LAMBDA u : Label(u, "customer_with_children", "has_children")),
         LAMBDA u : Label(u, "gender_customer_payee", "gender"))

Step3g(t) ==
    Then(ReadableLabels(t),
         LAMBDA u : Outcome("", u, << Msg("DERIVED", <<"ABC">>),
                                      Msg("DERIVED_LABELS", <<"ABC">>) >>))

clean_abc(t) ==
    Then(Then(Then(Then(Then(Then(Then(
        Outcome("", t, << Msg("SECTION", <<3>>) >>),
        Step3a), Step3b), Step3c), Step3d), Step3e), Step3f), Step3g)

(*------------------------- 4. CLEAN XYZ ---------------------------------*)
\* 4a. drop item_product_cost; the message is a fixed text
Step4a(t) ==
    IF ~HasCol(t, "item_product_cost") THEN Outcome("KeyError", t, <<>>)
    ELSE Outcome("", DropCol(t, "item_product_cost"),
                 << Msg("DROP", <<"item_product_cost", 20000>>) >>)

\* 4b. to_datetime; dates before 2015 are counted, none is reset
Step4b(t) ==
    IF ~HasCol(t, "order_purchase_date") THEN Outcome("KeyError", t, <<>>)
    ELSE
    LET parsed  == SetCol(t, "order_purchase_date",
                          LAMBDA r : to_datetime(r.order_purchase_date))
        bad_xyz == CountRows(parsed, LAMBDA r : r.order_purchase_date.k = "ts"
                                               /\ r.order_purchase_date.y < 2015)
    IN  Outcome("", parsed,
                << Msg("DATE_RANGE_XYZ", <<date_min(parsed), date_max(parsed)>>),
                   Msg("DATE_SUSPICIOUS", <<bad_xyz>>) >>)

\* 4c. item_category through category_map_xyz
Step4c(t) ==
    IF ~HasCol(t, "item_category") THEN Outcome("KeyError", t, <<>>)
    ELSE
    LET mapped == SetCol(t, "item_category",
                         LAMBDA r : map_category(category_map_xyz, r.item_category))
    IN  IF SortedRaises(Unique(mapped, "item_category"))
        THEN Outcome("TypeError", mapped, <<>>)
        ELSE Outcome("", mapped,
                     << Msg("CATEGORY_XYZ", Unique(mapped, "item_category")) >>)

\* 4d. order_purchase_time -> 'HH:MM'
Step4d(t) ==
    IF ~HasCol(t, "order_purchase_time") THEN Outcome("KeyError", t, <<>>)
    ELSE Outcome("",
                 SetCol(t, "order_purchase_time",
                        LAMBDA r : standardise_time(r.order_purchase_time)),
                 <<>>)

\* 4e. derived columns and labels
Step4e(t) ==
    LET tod == SetCol(t, "time_of_day",
                      LAMBDA r : time_of_day_xyz(r.order_purchase_time))
    IN  Then(ReadableLabels(DeriveDateCols(tod)),
             LAMBDA u : Outcome("", u, << Msg("DERIVED", <<"XYZ">>) >>))

clean_xyz(t) ==
    Then(Then(Then(Then(Then(
        Outcome("", t, << Msg("SECTION", <<4>>) >>),
        Step4a), Step4b), Step4c), Step4d), Step4e)

(*------------------------- the inputs ------------------------------------*)
\* most rows the two extracts hold together
MaxRows == 3

RawRow(id, date, time, cat, num) ==
    [customer_id |-> Str(id), order_purchase_date |-> date,
     order_purchase_time |-> time, item_category |-> cat, order_number |-> num,
     restaurant_id |-> Num(1), item_number |-> Num(1)]

\* rows of ABC.xlsx: clean rows of several seasons and of both halves of the
\* day, the 1970 dates (as a timestamp and as an Excel serial number),
\* unparseable and missing dates and times, mapped / canonical / unrecognised /
\* missing categories, numeric, textual, fractional and missing order numbers
SampleABC ==
    { RawRow("a1", Ts(2018, 1, 15),   Tm(9, 30, 0, 0),        Str("salad"),    Num(1001)),
      RawRow("a2", Ts(1970, 1, 1),    Tm(12, 0, 0, 0),        Str("Pizza"),    Str("1002")),
      RawRow("a3", Num(43101),        Tm(23, 45, 10, 250000), NaN,             NaN),
      RawRow("a4", Str("not a date"), NaN,                    Str("Soup"),     Str("n/a")),
      RawRow("a5", Str("2018-03-05"), Str("09:30:00"),        Str("Beverage"), Num(1006)),
      RawRow("a6", NaN,               Tm(11, 59, 59, 0),      Str("Sandwich"), Num(1007)),
      RawRow("a7", Ts(2018, 10, 31),  Tm(14, 5, 0, 0),        Str("Dessert"),  Str("12.5")) }

RawRowX(id, date, time, cat, num, cost) ==
    [customer_id |-> Str(id), order_purchase_date |-> date,
     order_purchase_time |-> time, item_category |-> cat, order_number |-> num,
     item_product_cost |-> cost, restaurant_id |-> Num(1), item_number |-> Num(1)]

\* rows of XYZ.xlsx
SampleXYZ ==
    { RawRowX("x1", Ts(2018, 2, 10),  Tm(18, 15, 0, 0), Str("Beverage"), Num(2001),   NaN),
      RawRowX("x2", Ts(1970, 1, 1),   Tm(11, 0, 0, 0),  Str("Salads"),   Num(2002),   NaN),
      RawRowX("x3", NaN,              NaN,              Str("Dessert"),  NaN,         NaN),
      RawRowX("x4", Ts(2014, 11, 30), Str("25:00:00"),  Str("salad"),    Str("abc"),  NaN),
      RawRowX("x5", Ts(2019, 6, 1),   Tm(12, 30, 0, 0), Str("Pizza"),    Num(2005),   Flt(35)),
      RawRowX("x6", Str("garbage"),   Tm(7, 0, 0, 1),   NaN,             Str("12.5"), NaN) }

\* the column that ABC.xlsx / XYZ.xlsx lacks ("" : it lacks none)
Lacks == { <<"", "">>, <<"restaurant_city", "">>, <<"order_purchase_time", "">>,
           <<"", "Profit">>, <<"", "item_product_cost">> }

\* the frame read from an extract with the given rows that lacks column c
ReadFrame(cols, rows, c) ==
    [cols |-> SelectSeq(cols, LAMBDA x : x # c),
     rows |-> [i \in 1..Len(rows) |->
                 [x \in DOMAIN rows[i] \ {c} |-> rows[i][x]]]]

\* the extracts of the ten-row scenario: one source has ten rows, one of them
\* (the k-th) dated 1970-01-01 and the others with a sound date; the other
\* source has one sound row
TenRows(sound, epoch) ==
    {[i \in 1..10 |-> IF i = k THEN epoch ELSE sound] : k \in 1..10}

ScenarioExtracts ==
    LET a_sound == RawRow("a1", Ts(2018, 1, 15), Tm(9, 30, 0, 0), Str("salad"), Num(1001))
        a_epoch == RawRow("a2", Ts(1970, 1, 1), Tm(12, 0, 0, 0), Str("Pizza"), Str("1002"))
        x_sound == RawRowX("x1", Ts(2018, 2, 10), Tm(18, 15, 0, 0), Str("Beverage"),
                           Num(2001), NaN)
        x_epoch == RawRowX("x2", Ts(1970, 1, 1), Tm(11, 0, 0, 0), Str("Salads"),
                           Num(2002), NaN)
    IN  {<< ra, << x_sound >> >> : ra \in TenRows(a_sound, a_epoch)} \cup
        {<< << a_sound >>, rx >> : rx \in TenRows(x_sound, x_epoch)}

OutputFiles == {"abc_clean.csv", "xyz_clean.csv", "merged_clean.csv", "cleaning_log.txt"}

\* the generator is not run
GenIdle ==
    /\ gen_pc = "idle"
    /\ gen_err = <<>>
    /\ gen_abc = EmptyFrame
    /\ gen_xyz = EmptyFrame
    /\ abc_2025 = EmptyFrame
    /\ xyz_2025 = EmptyFrame
    /\ merged_2025 = EmptyFrame
    /\ gen_files = [f \in {} |-> EmptyFrame]

\* 01_clean_and_merge.py is not run
Idle01 ==
    /\ pc = "idle"
    /\ err = <<>>
    /\ abc_raw = EmptyFrame
    /\ xyz_raw = EmptyFrame
    /\ abc = EmptyFrame
    /\ xyz = EmptyFrame
    /\ abc_clean = EmptyFrame
    /\ xyz_clean = EmptyFrame
    /\ merged = EmptyFrame
    /\ have = {}
    /\ log_lines = <<>>
    /\ files = [f \in {} |-> EmptyFrame]

\* no loader runs
DbIdle ==
    /\ loader = ""
    /\ db_pc = "idle"
    /\ db_err = <<>>
    /\ db_in = EmptyFrame
    /\ db = [t \in {} |-> EmptyFrame]
    /\ db_prev = [t \in {} |-> EmptyFrame]
    /\ db_runs = 0

\* a missing object (Python's None)
None == [k |-> "None"]

\* the report generator is not run
RepIdle ==
    /\ rep_pc = "idle"
    /\ rep_err = <<>>
    /\ results = None
    /\ outputs = {}
    /\ forecast_df = None
    /\ total_forecast = 0
    /\ doc = <<>>
    /\ report = <<>>

\* no value is under the vocabulary map
VocIdle ==
    /\ voc_chain = ""
    /\ voc_raw = NaN
    /\ voc_val = NaN
    /\ voc_n = 0

Init ==
    /\ pc = "load"
    /\ err = <<>>
    /\ \/ \E na \in 0..MaxRows : \E nx \in 0..(MaxRows - na) :
          \E ra \in [1..na -> SampleABC] : \E rx \in [1..nx -> SampleXYZ] :
          \E lack \in Lacks :
             /\ abc_raw = ReadFrame(RawColsABC, ra, lack[1])
             /\ xyz_raw = ReadFrame(RawColsXYZ, rx, lack[2])
       \/ \E e \in ScenarioExtracts :
             /\ abc_raw = ReadFrame(RawColsABC, e[1], "")
             /\ xyz_raw = ReadFrame(RawColsXYZ, e[2], "")
    /\ abc = EmptyFrame
    /\ xyz = EmptyFrame
    /\ abc_clean = EmptyFrame
    /\ xyz_clean = EmptyFrame
    /\ merged = EmptyFrame
    /\ have = {}
    /\ log_lines = << Msg("RULE", <<>>), Msg("TITLE", <<>>), Msg("RULE", <<>>) >>
    /\ files = [f \in {} |-> EmptyFrame]
    /\ GenIdle
    /\ DbIdle
    /\ VocIdle
    /\ RepIdle

(*------------------------- the sections -----------------------------------*)
\* 1. LOAD RAW DATA: the frames are read and copied
Load ==
    /\ pc = "load"
    /\ abc' = abc_raw
    /\ xyz' = xyz_raw
    /\ log_lines' = log_lines \o
          << Msg("SECTION", <<1>>),
             Msg("RAW_SHAPE", <<"ABC", Len(abc_raw.rows), Len(abc_raw.cols)>>),
             Msg("RAW_SHAPE", <<"XYZ", Len(xyz_raw.rows), Len(xyz_raw.cols)>>) >>
    /\ pc' = "tag"
    /\ UNCHANGED << err, abc_raw, xyz_raw, abc_clean, xyz_clean, merged, have, files >>
    /\ UNCHANGED << vars07, varsDb, varsVoc, varsRep >>

\* a tagging that gives both frames the tag of ABC
Tag_both_abc ==
    /\ pc = "tag"
    /\ abc' = SetCol(abc, "chain", LAMBDA r : Str("ABC"))
    /\ xyz' = SetCol(xyz, "chain", LAMBDA r : Str("ABC"))
    /\ log_lines' = Append(log_lines, Msg("SECTION", <<2>>))
    /\ pc' = "clean_abc"
    /\ UNCHANGED << err, abc_raw, xyz_raw, abc_clean, xyz_clean, merged, have, files >>
    /\ UNCHANGED << vars07, varsDb, varsVoc, varsRep >>

\* 2. ADD SOURCE COLUMN
Tag ==
    /\ pc = "tag"
    /\ abc' = SetCol(abc, "chain", LAMBDA r : Str("ABC"))
    /\ xyz' = SetCol(xyz, "chain", LAMBDA r : Str("XYZ"))
    /\ log_lines' = Append(log_lines, Msg("SECTION", <<2>>))
    /\ pc' = "clean_abc"
    /\ UNCHANGED << err, abc_raw, xyz_raw, abc_clean, xyz_clean, merged, have, files >>
    /\ UNCHANGED << vars07, varsDb, varsVoc, varsRep >>

\* 3. CLEAN ABC
CleanABC ==
    /\ pc = "clean_abc"
    /\ LET r == clean_abc(abc)
       IN  /\ abc' = r.t
           /\ log_lines' = log_lines \o r.log
           /\ err' = IF r.err = "" THEN <<>> ELSE <<r.err, 3>>
           /\ pc' = IF r.err = "" THEN "clean_xyz" ELSE "error"
    /\ UNCHANGED << abc_raw, xyz_raw, xyz, abc_clean, xyz_clean, merged, have, files >>
    /\ UNCHANGED << vars07, varsDb, varsVoc, varsRep >>

\* 4. CLEAN XYZ
CleanXYZ ==
    /\ pc = "clean_xyz"
    /\ LET r == clean_xyz(xyz)
       IN  /\ xyz' = r.t
           /\ log_lines' = log_lines \o r.log
           /\ err' = IF r.err = "" THEN <<>> ELSE <<r.err, 4>>
           /\ pc' = IF r.err = "" THEN "align" ELSE "error"
    /\ UNCHANGED << abc_raw, xyz_raw, abc, abc_clean, xyz_clean, merged, have, files >>
    /\ UNCHANGED << vars07, varsDb, varsVoc, varsRep >>

\* 5. ALIGN COLUMNS: abc[shared_cols], then xyz[shared_cols]
Align ==
    /\ pc = "align"
    /\ IF SelectRaises(abc, shared_cols)
       THEN /\ err' = <<"KeyError", 5>>
            /\ pc' = "error"
            /\ log_lines' = Append(log_lines, Msg("SECTION", <<5>>))
            /\ UNCHANGED << abc_clean, xyz_clean, have >>
       ELSE IF SelectRaises(xyz, shared_cols)
       THEN /\ err' = <<"KeyError", 5>>
            /\ pc' = "error"
            /\ log_lines' = Append(log_lines, Msg("SECTION", <<5>>))
            /\ abc_clean' = SelectCols(abc, shared_cols)
            /\ have' = have \cup {"abc_clean"}
            /\ UNCHANGED xyz_clean
       ELSE /\ abc_clean' = SelectCols(abc, shared_cols)
            /\ xyz_clean' = SelectCols(xyz, shared_cols)
            /\ have' = have \cup {"abc_clean", "xyz_clean"}
            /\ log_lines' = log_lines \o
                  << Msg("SECTION", <<5>>),
                     Msg("CLEAN_COLUMNS", <<"ABC", Len(shared_cols)>>),
                     Msg("CLEAN_COLUMNS", <<"XYZ", Len(shared_cols)>>) >>
            /\ pc' = "merge"
            /\ UNCHANGED err
    /\ UNCHANGED << abc_raw, xyz_raw, abc, xyz, merged, files >>
    /\ UNCHANGED << vars07, varsDb, varsVoc, varsRep >>

\* q without the elements that repeat an earlier one
RECURSIVE DropDuplicates(_)
DropDuplicates(q) ==
    IF q = <<>> THEN <<>>
    ELSE LET front == SubSeq(q, 1, Len(q) - 1)
         IN  IF \E i \in 1..Len(front) : front[i] = q[Len(q)]
             THEN DropDuplicates(front)
             ELSE Append(DropDuplicates(front), q[Len(q)])

\* a concat followed by drop_duplicates()
concat_dedup(a, b) ==
    LET cols == a.cols \o SelectSeq(b.cols, LAMBDA c : ~HasCol(a, c))
        keys == Range(cols) \cap Tracked
        Fill(r) == [x \in keys |-> IF x \in DOMAIN r THEN r[x] ELSE NaN]
    IN  [cols |-> cols,
         rows |-> DropDuplicates([i \in 1..Len(a.rows) |-> Fill(a.rows[i])] \o
                                 [i \in 1..Len(b.rows) |-> Fill(b.rows[i])])]

\* a concat with its two frames in the other order
concat_swapped(a, b) ==
    LET cols == a.cols \o SelectSeq(b.cols, LAMBDA c : ~HasCol(a, c))
        keys == Range(cols) \cap Tracked
        Fill(r) == [x \in keys |-> IF x \in DOMAIN r THEN r[x] ELSE NaN]
    IN  [cols |-> cols,
         rows |-> [i \in 1..Len(b.rows) |-> Fill(b.rows[i])] \o
                  [i \in 1..Len(a.rows) |-> Fill(a.rows[i])]]

\* pd.concat([a, b], ignore_index=True): the columns of a, then those of b that
\* a lacks; the rows of a, then the rows of b; NaN where a frame lacks a column
concat(a, b) ==
    LET cols == a.cols \o SelectSeq(b.cols, LAMBDA c : ~HasCol(a, c))
        keys == Range(cols) \cap Tracked
        Fill(r) == [x \in keys |-> IF x \in DOMAIN r THEN r[x] ELSE NaN]
    IN  [cols |-> cols,
         rows |-> [i \in 1..Len(a.rows) |-> Fill(a.rows[i])] \o
                  [i \in 1..Len(b.rows) |-> Fill(b.rows[i])]]

\* 6. MERGE
Merge ==
    /\ pc = "merge"
    /\ LET m == concat(abc_clean, xyz_clean)
       IN  /\ merged' = m
           /\ log_lines' = log_lines \o
                 << Msg("SECTION", <<6>>),
                    Msg("MERGED_SHAPE", <<Len(m.rows), Len(m.cols)>>),
                    Msg("CHAIN_ROWS",
                        << CountRows(m, LAMBDA r : r.chain = Str("ABC")),
                           CountRows(m, LAMBDA r : r.chain = Str("XYZ")) >>) >>
    /\ have' = have \cup {"merged"}
    /\ pc' = "validate"
    /\ UNCHANGED << err, abc_raw, xyz_raw, abc, xyz, abc_clean, xyz_clean, files >>
    /\ UNCHANGED << vars07, varsDb, varsVoc, varsRep >>

\* the columns of the frame with at least one null, in column order, each with
\* its count and percentage
null_findings(t) ==
    LET cs == SelectSeq(t.cols, LAMBDA c : c \in Tracked /\ NullCount(t, c) > 0)
    IN  [i \in 1..Len(cs) |->
           Msg("NULLS", << cs[i], NullCount(t, cs[i]),
                           Pct(NullCount(t, cs[i]), Len(t.rows)) >>)]

\* 7. FINAL VALIDATION: the findings are logged; sorting the distinct
\* categories is the one statement that can raise
Validate ==
    /\ pc = "validate"
    /\ LET head == << Msg("SECTION", <<7>>), Msg("NULLS_HEADER", <<>>) >> \o
                   null_findings(merged)
       IN  IF SortedRaises(Unique(merged, "item_category"))
           THEN /\ err' = <<"TypeError", 7>>
                /\ pc' = "error"
                /\ log_lines' = log_lines \o head
           ELSE /\ log_lines' = log_lines \o head \o
                      << Msg("CATEGORIES", Unique(merged, "item_category")),
                         Msg("CHAINS", Unique(merged, "chain")),
                         Msg("DATE_RANGE", <<date_min(merged), date_max(merged)>>),
                         Msg("TOTAL_ROWS", <<Len(merged.rows)>>),
                         Msg("TOTAL_COLUMNS", <<Len(merged.cols)>>) >>
                /\ pc' = "save"
                /\ UNCHANGED err
    /\ UNCHANGED << abc_raw, xyz_raw, abc, xyz, abc_clean, xyz_clean, merged, have, files >>
    /\ UNCHANGED << vars07, varsDb, varsVoc, varsRep >>

\* 8. SAVE OUTPUTS: the three frames, then the log as it stands, then five
\* closing messages
Save ==
    /\ pc = "save"
    /\ LET lines == Append(log_lines, Msg("SECTION", <<8>>))
       IN  /\ files' = [f \in OutputFiles |->
                          CASE f = "abc_clean.csv"    -> abc_clean
                            [] f = "xyz_clean.csv"    -> xyz_clean
                            [] f = "merged_clean.csv" -> merged
                            [] f = "cleaning_log.txt" -> lines]
           /\ log_lines' = lines \o
                 << Msg("COMPLETE", <<>>),
                    Msg("OUTPUT", <<"abc_clean.csv">>),
                    Msg("OUTPUT", <<"xyz_clean.csv">>),
                    Msg("OUTPUT", <<"merged_clean.csv">>),
                    Msg("OUTPUT", <<"cleaning_log.txt">>) >>
    /\ pc' = "done"
    /\ UNCHANGED << err, abc_raw, xyz_raw, abc, xyz, abc_clean, xyz_clean, merged, have >>
    /\ UNCHANGED << vars07, varsDb, varsVoc, varsRep >>

Next ==
    \/ Load
    \/ Tag
    \/ CleanABC
    \/ CleanXYZ
    \/ Align
    \/ Merge
    \/ Validate
    \/ Save

Spec == Init /\ [][Next]_vars

(***************************************************************************)
(* The run of 07_generate_2025_data.py (sections 1 to 4)                   *)
(***************************************************************************)
IsLeap(y) == (y % 4 = 0 /\ y % 100 # 0) \/ y % 400 = 0
DaysIn(y, m) ==
    IF m = 2 THEN (IF IsLeap(y) THEN 29 ELSE 28)
    ELSE IF m \in {4, 6, 9, 11} THEN 30 ELSE 31

\* a shift that rolls a 29 February over to 1 March
shift_date_rollover(dt) ==
    IF IsNa(dt) THEN NaT
    ELSE IF dt.d <= DaysIn(dt.y + 6, dt.m)
         THEN Ts(dt.y + 6, dt.m, dt.d)
         ELSE Ts(dt.y + 6, dt.m + 1, 1)

\* dt.replace(year=dt.year + 6); the ValueError of a 29 February in a year that
\* is no leap year is caught and the day set to 28
shift_date(dt) ==
    IF IsNa(dt) THEN NaT
    ELSE IF dt.d <= DaysIn(dt.y + 6, dt.m)
         THEN Ts(dt.y + 6, dt.m, dt.d)
         ELSE Ts(dt.y + 6, dt.m, 28)

\* df.rename(columns={old: new})
RenameCol(t, old, new) ==
    [cols |-> [i \in 1..Len(t.cols) |-> IF t.cols[i] = old THEN new ELSE t.cols[i]],
     rows |-> t.rows]

\* df[dst] = (df[src] * growth_factor).round(0).astype(int)
Grow(t, src, dst) ==
    IF HasCol(t, src) THEN Outcome("", SetColByName(t, dst), <<>>)
    ELSE Outcome("KeyError", t, <<>>)

\* the customer id f"{prefix}{str(i).zfill(6)}" of row i (counted from 0)
FreshId(prefix, i) == [k |-> "str", s |-> prefix, n |-> i]

update_to_2025(df, chain_name) ==
    LET Dates(t) ==
            IF ~HasCol(t, "order_purchase_date") THEN Outcome("KeyError", t, <<>>)
            ELSE Outcome("",
                   SetCol(t, "order_purchase_date",
                          LAMBDA r : shift_date(to_datetime(r.order_purchase_date))),
                   <<>>)
        Derived(t) ==
            LET t1 == SetCol(t,  "order_month",
                             LAMBDA r : dt_month(r.order_purchase_date))
                t2 == SetCol(t1, "order_month_name",
                             LAMBDA r : strftime_B(r.order_purchase_date))
            IN  Outcome("",
                   SetCol(t2, "order_year", LAMBDA r : dt_year(r.order_purchase_date)),
                   <<>>)
        Growth(t) ==
            Then(Then(Then(Grow(t, "menu_price", "menu_price"),
                           LAMBDA u : Grow(u, "item_total_cost", "item_total_cost")),
                      LAMBDA u : Grow(u, "order_total_cost", "order_total_cost")),
                 LAMBDA u : Grow(u, "Profit", "profit"))
        Delivery(t) ==
            IF HasCol(t, "order_purchase_method") THEN Outcome("", t, <<>>)
            ELSE Outcome("KeyError", t, <<>>)
        FreshIds(t) ==
            LET prefix == IF chain_name = "ABC" THEN "ABC2024" ELSE "XYZ2024"
                named  == SetColByName(t, "customer_id")
            IN  Outcome("",
                   [cols |-> named.cols,
                    rows |-> [i \in 1..Len(t.rows) |->
                                [x \in DOMAIN t.rows[i] \cup {"customer_id"} |->
                                   IF x = "customer_id" THEN FreshId(prefix, i - 1)
                                   ELSE t.rows[i][x]]]],
                   <<>>)
        NewProfit(t) ==
            Outcome("", RenameCol(DropCol(t, "Profit"), "profit", "Profit"), <<>>)
    IN  Then(Then(Then(Then(Then(Dates(df), Derived), Growth), Delivery),
                  FreshIds), NewProfit)

\* [c for c in shared_cols if c in df.columns]
cols_that_exist(t) == SelectSeq(shared_cols, LAMBDA c : HasCol(t, c))

\* most rows the two cleaned files hold together
MaxGenRows == 3

\* a record of a cleaned file, its date columns derived as the cleaning derives them
CleanRecord(ch, id, date) ==
    [chain |-> Str(ch), customer_id |-> Str(id), order_number |-> Num(1),
     order_purchase_date |-> date, order_purchase_time |-> HM(9, 30),
     time_of_day |-> Str("AM"), order_month |-> dt_month(date),
     order_month_name |-> strftime_B(date), order_year |-> dt_year(date),
     season |-> get_season(dt_month(date)), item_category |-> Str("Pizza"),
     restaurant_id |-> Num(1), item_number |-> Num(1)]

SampleCleanABC ==
    { CleanRecord("ABC", "a1", Ts(2018, 1, 15)),
      CleanRecord("ABC", "a2", NaT),
      CleanRecord("ABC", "a3", Ts(2016, 2, 29)) }

SampleCleanXYZ ==
    { CleanRecord("XYZ", "x1", Ts(2019, 12, 31)),
      CleanRecord("XYZ", "x2", NaT),
      CleanRecord("XYZ", "x3", Ts(2020, 2, 29)) }

\* the column that abc_clean.csv / xyz_clean.csv lacks ("" : it lacks none)
GenLacks == { <<"", "">>, <<"season", "">>, <<"season", "season">>,
              <<"", "Profit">>, <<"restaurant_city", "restaurant_city">> }

GenInit ==
    /\ pc = "idle"
    /\ err = <<>>
    /\ abc_raw = EmptyFrame
    /\ xyz_raw = EmptyFrame
    /\ abc = EmptyFrame
    /\ xyz = EmptyFrame
    /\ abc_clean = EmptyFrame
    /\ xyz_clean = EmptyFrame
    /\ merged = EmptyFrame
    /\ have = {}
    /\ log_lines = <<>>
    /\ files = [f \in {} |-> EmptyFrame]
    /\ gen_pc = "gen_load"
    /\ gen_err = <<>>
    /\ gen_abc = EmptyFrame
    /\ gen_xyz = EmptyFrame
    /\ abc_2025 = EmptyFrame
    /\ xyz_2025 = EmptyFrame
    /\ merged_2025 = EmptyFrame
    /\ DbIdle
    /\ VocIdle
    /\ RepIdle
    /\ \E na \in 0..MaxGenRows : \E nx \in 0..(MaxGenRows - na) :
       \E ra \in [1..na -> SampleCleanABC] : \E rx \in [1..nx -> SampleCleanXYZ] :
       \E lack \in GenLacks :
          gen_files = [f \in {"abc_clean.csv", "xyz_clean.csv"} |->
                         IF f = "abc_clean.csv"
                         THEN ReadFrame(shared_cols, ra, lack[1])
                         ELSE ReadFrame(shared_cols, rx, lack[2])]

\* [1] the two cleaned files are read
GenLoad ==
    /\ gen_pc = "gen_load"
    /\ gen_abc' = gen_files["abc_clean.csv"]
    /\ gen_xyz' = gen_files["xyz_clean.csv"]
    /\ gen_pc' = "gen_update_abc"
    /\ UNCHANGED << gen_err, abc_2025, xyz_2025, merged_2025, gen_files >>
    /\ UNCHANGED << vars01, varsDb, varsVoc, varsRep >>

\* [2] abc_2025 = update_to_2025(abc, 'ABC', growth_rate=0.08)
GenUpdateABC ==
    /\ gen_pc = "gen_update_abc"
    /\ LET r == update_to_2025(gen_abc, "ABC")
       IN  IF r.err = ""
           THEN abc_2025' = r.t /\ gen_pc' = "gen_update_xyz" /\ UNCHANGED gen_err
           ELSE gen_err' = <<r.err, 2>> /\ gen_pc' = "gen_error" /\ UNCHANGED abc_2025
    /\ UNCHANGED << gen_abc, gen_xyz, xyz_2025, merged_2025, gen_files >>
    /\ UNCHANGED << vars01, varsDb, varsVoc, varsRep >>

\* [2] xyz_2025 = update_to_2025(xyz, 'XYZ', growth_rate=0.07)
GenUpdateXYZ ==
    /\ gen_pc = "gen_update_xyz"
    /\ LET r == update_to_2025(gen_xyz, "XYZ")
       IN  IF r.err = ""
           THEN xyz_2025' = r.t /\ gen_pc' = "gen_merge" /\ UNCHANGED gen_err
           ELSE gen_err' = <<r.err, 2>> /\ gen_pc' = "gen_error" /\ UNCHANGED xyz_2025
    /\ UNCHANGED << gen_abc, gen_xyz, abc_2025, merged_2025, gen_files >>
    /\ UNCHANGED << vars01, varsDb, varsVoc, varsRep >>

\* [3] only the shared columns that exist are kept of each frame, then concat
GenMerge ==
    /\ gen_pc = "gen_merge"
    /\ merged_2025' = concat(SelectCols(abc_2025, cols_that_exist(abc_2025)),
                             SelectCols(xyz_2025, cols_that_exist(xyz_2025)))
    /\ gen_pc' = "gen_save"
    /\ UNCHANGED << gen_err, gen_abc, gen_xyz, abc_2025, xyz_2025, gen_files >>
    /\ UNCHANGED << vars01, varsDb, varsVoc, varsRep >>

GenOutputs == {"abc_2025.csv", "xyz_2025.csv", "merged_2025.csv"}

\* [4] the three CSV files are written
GenSave ==
    /\ gen_pc = "gen_save"
    /\ gen_files' =
          [f \in DOMAIN gen_files \cup GenOutputs |->
             CASE f = "abc_2025.csv"    -> SelectCols(abc_2025, cols_that_exist(abc_2025))
               [] f = "xyz_2025.csv"    -> SelectCols(xyz_2025, cols_that_exist(xyz_2025))
               [] f = "merged_2025.csv" -> merged_2025
               [] OTHER                 -> gen_files[f]]
    /\ gen_pc' = "gen_saved"
    /\ UNCHANGED << gen_err, gen_abc, gen_xyz, abc_2025, xyz_2025, merged_2025 >>
    /\ UNCHANGED << vars01, varsDb, varsVoc, varsRep >>

GenNext ==
    \/ GenLoad
    \/ GenUpdateABC
    \/ GenUpdateXYZ
    \/ GenMerge
    \/ GenSave

SpecGen == GenInit /\ [][GenNext]_vars

(***************************************************************************)
(* The SQLite store and its loaders: 02_load_database.py (restaurant.db)   *)
(* and section 5 of 07_generate_2025_data.py (restaurant_2025.db)          *)
(*                                                                         *)
(* A table is a record [cols, rows, pk]: pk is "" or the name of the       *)
(* table's PRIMARY KEY column.  The store maps the names of the tables     *)
(* that exist to their committed content.                                  *)
(***************************************************************************)
NULL == [k |-> "NULL"]

\* the value sqlite3 stores for a cell: a missing value is stored as NULL
sql_value(c) == IF IsNa(c) THEN NULL ELSE c

\* the rows of a frame as to_sql hands them to INSERT
sql_rows(t) ==
    [i \in 1..Len(t.rows) |->
       [x \in DOMAIN t.rows[i] |-> sql_value(t.rows[i][x])]]

MaxOf(S) == CHOOSE m \in S : \A x \in S : x <= m

\* a drop_duplicates that does nothing
drop_duplicates_none(t, subset) == t

\* a drop_duplicates that keeps none of the rows that agree (keep=False)
drop_duplicates_keep_none(t, subset) ==
    LET Key(i) == [n \in 1..Len(subset) |-> t.rows[i][subset[n]]]
        idx == [i \in 1..Len(t.rows) |-> i]
        kept == SelectSeq(idx, LAMBDA i : \A j \in 1..Len(t.rows) : j # i => Key(j) # Key(i))
    IN  [cols |-> t.cols, rows |-> [n \in 1..Len(kept) |-> t.rows[kept[n]]]]

\* df.drop_duplicates(subset=...): of the rows that agree on every column of
\* the subset (NaN agrees with NaN) the first is kept
drop_duplicates(t, subset) ==
    LET Key(i) == [n \in 1..Len(subset) |-> t.rows[i][subset[n]]]
        idx == [i \in 1..Len(t.rows) |-> i]
        kept == SelectSeq(idx, LAMBDA i : \A j \in 1..(i - 1) : Key(j) # Key(i))
    IN  [cols |-> t.cols, rows |-> [n \in 1..Len(kept) |-> t.rows[kept[n]]]]

\* INSERT of the rows, one after the other, into a table whose column key is
\* INTEGER PRIMARY KEY: a NULL key is given the largest key of the table plus
\* one (1 in an empty table), a key that is no integer is a datatype mismatch,
\* a key the table already has violates the constraint
RECURSIVE insert_integer_pk(_, _, _)
insert_integer_pk(rows, key, done) ==
    IF rows = <<>> THEN [err |-> "", rows |-> done]
    ELSE LET r    == Head(rows)
             used == {done[i][key].v : i \in 1..Len(done)}
             k    == IF r[key] = NULL THEN Num(MaxOf(used \cup {0}) + 1) ELSE r[key]
         IN  IF k.k # "num" \/ k.v \in used
             THEN [err |-> "IntegrityError", rows |-> done]
             ELSE insert_integer_pk(Tail(rows), key,
                                    Append(done, [r EXCEPT ![key] = k]))

\* INSERT of the rows into a table whose column key is TEXT PRIMARY KEY: a
\* key the table already has violates the constraint; NULL keys never do
RECURSIVE insert_text_pk(_, _, _)
insert_text_pk(rows, key, done) ==
    IF rows = <<>> THEN [err |-> "", rows |-> done]
    ELSE LET r == Head(rows)
         IN  IF r[key] # NULL /\ \E i \in 1..Len(done) : done[i][key] = r[key]
             THEN [err |-> "IntegrityError", rows |-> done]
             ELSE insert_text_pk(Tail(rows), key, Append(done, r))

\* frame.to_sql(name, conn, if_exists='append', index=False) in one
\* transaction: a table that does not exist is created with the frame's
\* columns and no key; the rows are inserted; on an exception the transaction
\* is rolled back (the table is as before) and the exception is raised, else
\* it is committed.  The result is [err, db].
to_sql(t, name, store) ==
    IF name \notin DOMAIN store
    THEN [err |-> "",
          db  |-> [n \in DOMAIN store \cup {name} |->
                     IF n = name THEN [cols |-> t.cols, rows |-> sql_rows(t), pk |-> ""]
                     ELSE store[n]]]
    ELSE LET tab == store[name]
             \* a key column the frame does not name is inserted as NULL
             new == [i \in 1..Len(t.rows) |->
                       [x \in DOMAIN sql_rows(t)[i] \cup ({tab.pk} \ {""}) |->
                          IF x \in DOMAIN sql_rows(t)[i] THEN sql_rows(t)[i][x] ELSE NULL]]
             res == CASE tab.pk = ""            -> [err |-> "", rows |-> tab.rows \o new]
                      [] tab.pk = "customer_id" -> insert_text_pk(new, tab.pk, tab.rows)
                      [] OTHER                  -> insert_integer_pk(new, tab.pk, tab.rows)
         IN  IF \E i \in 1..Len(t.cols) : t.cols[i] \notin Range(tab.cols)
             THEN [err |-> "OperationalError", db |-> store]
             ELSE IF res.err # "" THEN [err |-> res.err, db |-> store]
             ELSE [err |-> "", db |-> [store EXCEPT ![name].rows = res.rows]]

\* the list of 02 with 'chain' left out
orders_cols_without_chain ==
    << "customer_id", "order_number", "restaurant_id",
       "order_purchase_date", "order_purchase_time", "time_of_day",
       "order_month", "order_month_name", "order_year", "season",
       "order_purchase_method", "coupon_used", "alcohol_purchased",
       "gender", "has_children", "item_number", "item_description",
       "item_code", "item_category", "quantity", "menu_price",
       "item_total_cost", "Profit", "order_total_cost" >>

\* 02: the columns of the frame that go to the orders table
orders_cols ==
    << "chain", "customer_id", "order_number", "restaurant_id",
       "order_purchase_date", "order_purchase_time", "time_of_day",
       "order_month", "order_month_name", "order_year", "season",
       "order_purchase_method", "coupon_used", "alcohol_purchased",
       "gender", "has_children", "item_number", "item_description",
       "item_code", "item_category", "quantity", "menu_price",
       "item_total_cost", "Profit", "order_total_cost" >>

restaurants_cols == << "restaurant_id", "restaurant_city", "restaurant_state",
                       "restaurant_zip_code", "chain" >>
products_cols == << "item_number", "item_description", "item_code",
                    "item_category", "menu_price", "chain" >>
customers_cols == << "customer_id", "gender", "has_children", "chain" >>

\* 02: the four CREATE TABLE statements
created_tables ==
    [n \in {"orders", "restaurants", "products", "customers"} |->
       CASE n = "orders" ->
              [cols |-> << "id", "chain", "customer_id", "order_number",
                           "restaurant_id", "order_purchase_date",
                           "order_purchase_time", "time_of_day", "order_month",
                           "order_month_name", "order_year", "season",
                           "order_purchase_method", "coupon_used",
                           "alcohol_purchased", "gender", "has_children",
                           "item_number", "item_description", "item_code",
                           "item_category", "quantity", "menu_price",
                           "item_total_cost", "profit", "order_total_cost" >>,
               rows |-> <<>>, pk |-> "id"]
         [] n = "restaurants" ->
              [cols |-> << "restaurant_id", "restaurant_city", "restaurant_state",
                           "restaurant_zip", "chain" >>,
               rows |-> <<>>, pk |-> "restaurant_id"]
         [] n = "products" ->
              [cols |-> << "item_number", "item_description", "item_code",
                           "item_category", "menu_price", "chain" >>,
               rows |-> <<>>, pk |-> "item_number"]
         [] n = "customers" ->
              [cols |-> << "customer_id", "gender", "has_children", "chain" >>,
               rows |-> <<>>, pk |-> "customer_id"]]

\* df[cols] (KeyError when a column is absent), changed by Then(_), to_sql
select_then_to_sql(df, cols, Change(_), name, store) ==
    IF SelectRaises(df, cols) THEN [err |-> "KeyError", db |-> store]
    ELSE to_sql(Change(SelectCols(df, cols)), name, store)

\* the orders load: 02 selects orders_cols, 07 the shared columns that exist
load_orders(ld, df, store) ==
    select_then_to_sql(df, IF ld = "02" THEN orders_cols ELSE cols_that_exist(df),
                       LAMBDA t : RenameCol(t, "Profit", "profit"),
                       "orders", store)

load_restaurants(df, store) ==
    select_then_to_sql(df, restaurants_cols,
                       LAMBDA t : RenameCol(drop_duplicates(t, << "restaurant_id" >>),
                                            "restaurant_zip_code", "restaurant_zip"),
                       "restaurants", store)

load_products(df, store) ==
    select_then_to_sql(df, products_cols,
                       LAMBDA t : drop_duplicates(t, << "item_number", "chain" >>),
                       "products", store)

load_customers(df, store) ==
    select_then_to_sql(df, customers_cols,
                       LAMBDA t : drop_duplicates(t, << "customer_id" >>),
                       "customers", store)

\* load_data of 06_dashboard.py: orders JOIN restaurants ON restaurant_id, as
\* the pairs << orders row, restaurants row >> it returns; NULL matches nothing
load_data(store) ==
    {<< i, j >> \in (1..Len(store["orders"].rows)) \X (1..Len(store["restaurants"].rows)) :
        /\ store["orders"].rows[i].restaurant_id # NULL
        /\ store["orders"].rows[i].restaurant_id =
              store["restaurants"].rows[j].restaurant_id}

(*------------------------- the inputs of a load ---------------------------*)
\* most rows of a frame that is loaded
MaxLoadRows == 2
\* most runs of the loader against one store
MaxRuns == 2

\* a record of merged_clean.csv (of the cleaned files, for 07)
LoadRecord(ch, id, restaurant, item) ==
    [CleanRecord(ch, "c", Ts(2018, 1, 15)) EXCEPT
        !.customer_id = id, !.restaurant_id = restaurant, !.item_number = item]

\* two records of different chains with the same item_number, two of ABC
\* with the same customer, one without a restaurant_id
SampleLoad ==
    { LoadRecord("ABC", Str("c1"), Num(101), Num(1)),
      LoadRecord("XYZ", Str("c2"), Num(102), Num(1)),
      LoadRecord("ABC", Str("c1"), NaN,      Num(2)) }

\* the column the input lacks ("" : it lacks none)
LoadLacks == {"", "restaurant_city", "season"}

RowsUpTo(S, n) == UNION {[1..m -> S] : m \in 0..n}

\* 02: the frames pd.read_csv(MERGED_CSV) can give
Inputs02 ==
    {ReadFrame(shared_cols, rows, lack) :
        rows \in RowsUpTo(SampleLoad, MaxLoadRows), lack \in LoadLacks}

\* 07: the frames merged_2025 that sections 1 to 3 give from cleaned files
\* which both lack the column
merged_2025_of(ra, rx, lack) ==
    LET a == update_to_2025(ReadFrame(shared_cols, ra, lack), "ABC").t
        x == update_to_2025(ReadFrame(shared_cols, rx, lack), "XYZ").t
    IN  concat(SelectCols(a, cols_that_exist(a)), SelectCols(x, cols_that_exist(x)))

Inputs07 ==
    UNION {{merged_2025_of(ra, rx, lack) :
              ra \in [1..na -> {r \in SampleLoad : r.chain = Str("ABC")}],
              rx \in RowsUpTo({r \in SampleLoad : r.chain = Str("XYZ")}, MaxLoadRows - na),
              lack \in LoadLacks} : na \in 0..MaxLoadRows}

LoadInit ==
    /\ Idle01
    /\ GenIdle
    /\ VocIdle
    /\ RepIdle
    /\ loader \in {"02", "07"}
    /\ db_pc = "start"
    /\ db_err = <<>>
    /\ db_in = EmptyFrame
    /\ db = [t \in {} |-> EmptyFrame]
    /\ db_prev = [t \in {} |-> EmptyFrame]
    /\ db_runs = 0

(*------------------------- the statements of a load -----------------------*)
\* the input is read and the store is opened
DbConnect ==
    /\ db_pc \in {"start", "done", "error"}
    /\ db_runs < MaxRuns
    /\ db_in' \in (IF loader = "02" THEN Inputs02 ELSE Inputs07)
    /\ db_prev' = db
    /\ db_err' = <<>>
    /\ db_runs' = db_runs + 1
    /\ db_pc' = "drop"
    /\ UNCHANGED << loader, db >>
    /\ UNCHANGED << vars01, vars07, varsVoc, varsRep >>

\* executescript: a pending transaction is committed, then the four DROP
\* TABLE IF EXISTS statements run, each committed as it ends
DbDrop ==
    /\ db_pc = "drop"
    /\ db' = [t \in DOMAIN db \ {"orders", "restaurants", "products", "customers"} |->
                db[t]]
    /\ db_pc' = IF loader = "02" THEN "create" ELSE "orders"
    /\ UNCHANGED << loader, db_err, db_in, db_prev, db_runs >>
    /\ UNCHANGED << vars01, vars07, varsVoc, varsRep >>

\* 02 only: the four CREATE TABLE statements
DbCreate ==
    /\ db_pc = "create"
    /\ db' = created_tables
    /\ db_pc' = "orders"
    /\ UNCHANGED << loader, db_err, db_in, db_prev, db_runs >>
    /\ UNCHANGED << vars01, vars07, varsVoc, varsRep >>

\* the orders load; an exception ends the run
DbLoadOrders ==
    /\ db_pc = "orders"
    /\ LET res == load_orders(loader, db_in, db)
       IN  /\ db' = res.db
           /\ db_err' = IF res.err = "" THEN <<>> ELSE <<res.err, "orders">>
           /\ db_pc' = IF res.err = "" THEN "restaurants" ELSE "error"
    /\ UNCHANGED << loader, db_in, db_prev, db_runs >>
    /\ UNCHANGED << vars01, vars07, varsVoc, varsRep >>

\* the restaurants load
DbLoadRestaurants ==
    /\ db_pc = "restaurants"
    /\ LET res == load_restaurants(db_in, db)
       IN  /\ db' = res.db
           /\ db_err' = IF res.err = "" THEN <<>> ELSE <<res.err, "restaurants">>
           /\ db_pc' = IF res.err = "" THEN "products" ELSE "error"
    /\ UNCHANGED << loader, db_in, db_prev, db_runs >>
    /\ UNCHANGED << vars01, vars07, varsVoc, varsRep >>

\* the products load
DbLoadProducts ==
    /\ db_pc = "products"
    /\ LET res == load_products(db_in, db)
       IN  /\ db' = res.db
           /\ db_err' = IF res.err = "" THEN <<>> ELSE <<res.err, "products">>
           /\ db_pc' = IF res.err = "" THEN "customers" ELSE "error"
    /\ UNCHANGED << loader, db_in, db_prev, db_runs >>
    /\ UNCHANGED << vars01, vars07, varsVoc, varsRep >>

\* the customers load
DbLoadCustomers ==
    /\ db_pc = "customers"
    /\ LET res == load_customers(db_in, db)
       IN  /\ db' = res.db
           /\ db_err' = IF res.err = "" THEN <<>> ELSE <<res.err, "customers">>
           /\ db_pc' = IF res.err = "" THEN "close" ELSE "error"
    /\ UNCHANGED << loader, db_in, db_prev, db_runs >>
    /\ UNCHANGED << vars01, vars07, varsVoc, varsRep >>

\* the verification queries read only; conn.commit(); conn.close()
DbClose ==
    /\ db_pc = "close"
    /\ db_pc' = "done"
    /\ UNCHANGED << loader, db_err, db_in, db, db_prev, db_runs >>
    /\ UNCHANGED << vars01, vars07, varsVoc, varsRep >>

LoadNext ==
    \/ DbConnect
    \/ DbDrop
    \/ DbCreate
    \/ DbLoadOrders
    \/ DbLoadRestaurants
    \/ DbLoadProducts
    \/ DbLoadCustomers
    \/ DbClose

SpecLoad == LoadInit /\ [][LoadNext]_vars

(***************************************************************************)
(* The vocabulary map on its own: one item_category value, put through     *)
(* series.map(mapping).fillna(series) of one source again and again        *)
(***************************************************************************)
\* most applications of the map to one value
MaxApply == 3

\* the values an item_category cell can hold: the seven canonical values, the
\* raw spellings the two tables repair, values no table knows, a number, a
\* missing value
VocValues ==
    { Str("Appetizers"), Str("Beverages"), Str("Dessert"), Str("Pasta"),
      Str("Pizza"), Str("Salads"), Str("Sandwiches"),
      Str("salad"), Str("Sandwich"), Str("Beverage"),
      Str("Salad"), Str("Soup"), Num(7), NaN }

VocInit ==
    /\ Idle01
    /\ GenIdle
    /\ DbIdle
    /\ RepIdle
    /\ voc_chain \in {"ABC", "XYZ"}
    /\ voc_raw \in VocValues
    /\ voc_val = voc_raw
    /\ voc_n = 0

\* abc['item_category'].map(category_map_abc).fillna(abc['item_category'])
ApplyMapABC ==
    /\ voc_chain = "ABC"
    /\ voc_n < MaxApply
    /\ voc_val' = map_category(category_map_abc, voc_val)
    /\ voc_n' = voc_n + 1
    /\ UNCHANGED << voc_chain, voc_raw >>
    /\ UNCHANGED << vars01, vars07, varsDb, varsRep >>

\* xyz['item_category'].map(category_map_xyz).fillna(xyz['item_category'])
ApplyMapXYZ ==
    /\ voc_chain = "XYZ"
    /\ voc_n < MaxApply
    /\ voc_val' = map_category(category_map_xyz, voc_val)
    /\ voc_n' = voc_n + 1
    /\ UNCHANGED << voc_chain, voc_raw >>
    /\ UNCHANGED << vars01, vars07, varsDb, varsRep >>

VocNext ==
    \/ ApplyMapABC
    \/ ApplyMapXYZ

SpecVoc == VocInit /\ [][VocNext]_vars

(***************************************************************************)
(* get_season applied to a column of months (01_clean_and_merge.py)        *)
(***************************************************************************)
\* most rows of the column
MaxMonths == 2

\* the values of order_month: the twelve months and the month of an unknown date
Months == {Num(m) : m \in 1..12} \cup {NaN}

\* a frame that has order_month, and the script about to derive season from
\* it, for ABC (line 121) or for XYZ (line 172)
SeasonInit ==
    /\ GenIdle
    /\ DbIdle
    /\ VocIdle
    /\ RepIdle
    /\ pc \in {"season_abc", "season_xyz"}
    /\ err = <<>>
    /\ abc_raw = EmptyFrame
    /\ xyz_raw = EmptyFrame
    /\ \E ms \in UNION {[1..n -> Months] : n \in 0..MaxMonths} :
          LET t == [cols |-> << "order_month" >>,
                    rows |-> [i \in 1..Len(ms) |-> [order_month |-> ms[i]]]]
          IN  /\ abc = IF pc = "season_abc" THEN t ELSE EmptyFrame
              /\ xyz = IF pc = "season_xyz" THEN t ELSE EmptyFrame
    /\ abc_clean = EmptyFrame
    /\ xyz_clean = EmptyFrame
    /\ merged = EmptyFrame
    /\ have = {}
    /\ log_lines = <<>>
    /\ files = [f \in {} |-> EmptyFrame]

\* abc['season'] = abc['order_month'].apply(get_season)
SeasonABC ==
    /\ pc = "season_abc"
    /\ abc' = SetCol(abc, "season", LAMBDA r : get_season(r.order_month))
    /\ pc' = "season_done"
    /\ UNCHANGED << err, abc_raw, xyz_raw, xyz, abc_clean, xyz_clean, merged, have,
                    log_lines, files >>
    /\ UNCHANGED << vars07, varsDb, varsVoc, varsRep >>

\* xyz['season'] = xyz['order_month'].apply(get_season)
SeasonXYZ ==
    /\ pc = "season_xyz"
    /\ xyz' = SetCol(xyz, "season", LAMBDA r : get_season(r.order_month))
    /\ pc' = "season_done"
    /\ UNCHANGED << err, abc_raw, xyz_raw, abc, abc_clean, xyz_clean, merged, have,
                    log_lines, files >>
    /\ UNCHANGED << vars07, varsDb, varsVoc, varsRep >>

SeasonNext ==
    \/ SeasonABC
    \/ SeasonXYZ

SpecSeason == SeasonInit /\ [][SeasonNext]_vars

(***************************************************************************)
(* The run of 04_generate_report.py                                        *)
(***************************************************************************)
\* the charts of CHARTS_DIR the report embeds: those of the analysis and
\* those of the forecast
AnalysisCharts ==
    {"01_chain_comparison.png", "03_seasonal_spending.png", "04_gender_spending.png",
     "05_top_states_profit.png", "09_children_spending.png",
     "06_best_worst_products.png", "07_category_profitability.png",
     "10_purchase_method.png", "08_am_pm_spending.png"}
ForecastCharts ==
    {"11_combined_forecast.png", "14_forecast_bar.png", "12_forecast_components.png",
     "13_chain_forecasts.png"}

\* the columns of revenue_forecast_2025_2026.csv as 07b_forecasting.py writes it
ForecastCols == << "Month", "Forecast ($M)", "Lower Bound ($M)", "Upper Bound ($M)" >>

\* forecast_df['Forecast ($M)'].sum(), in tenths
RECURSIVE SumForecast(_)
SumForecast(rows) ==
    IF rows = <<>> THEN 0
    ELSE rows[1]["Forecast ($M)"].v10 + SumForecast(Tail(rows))

\* f"${x:.1f}M" of an amount given in tenths
Money1f(x) == [k |-> "usd_m", whole |-> x \div 10, tenth |-> x % 10]

\* the elements a document is made of
Heading(text) == [el |-> "heading", text |-> text]
Paragraph(id, quotes) == [el |-> "paragraph", id |-> id, quotes |-> quotes]
Table(id, data) == [el |-> "table", id |-> id, data |-> data]
Picture(file) == [el |-> "picture", file |-> file]
PageBreak == [el |-> "page_break"]

\* a value a paragraph quotes from a query result
From(df) == [k |-> "from", df |-> df]

\* add_chart: picture, caption and an empty paragraph when the file exists,
\* nothing otherwise
add_chart(filename, caption) ==
    IF filename \in outputs.charts
    THEN << Picture(filename), Paragraph(caption, <<>>), Paragraph("", <<>>) >>
    ELSE <<>>

\* add_table: the table and an empty paragraph
add_table(id, data) == << Table(id, data), Paragraph("", <<>>) >>

\* a statement of a section: the elements it adds when the rows it indexes
\* exist (IndexError otherwise)
Stmt(ok, adds) == [ok |-> ok, adds |-> adds]

\* run the statements in order up to the first that raises
RECURSIVE RunStatements(_)
RunStatements(stmts) ==
    IF stmts = <<>> THEN [err |-> "", adds |-> <<>>]
    ELSE IF ~stmts[1].ok THEN [err |-> "IndexError", adds |-> <<>>]
    ELSE LET rest == RunStatements(Tail(stmts))
         IN  [err |-> rest.err, adds |-> stmts[1].adds \o rest.adds]

\* title page and sections 1 to 3: fixed text
front_matter ==
    << Heading("ABC & XYZ Restaurant Chains"), Paragraph("subtitle", <<>>),
       Paragraph("", <<>>), Paragraph("info", <<>>), PageBreak,
       Heading("1. Introduction and Scenario"),
       Paragraph("1/1", <<>>), Paragraph("1/2", <<>>),
       Heading("2. Data Errors and Gaps Identified"),
       Heading("2.1 Shared Attributes Between Datasets"), Paragraph("2.1", <<>>),
       Heading("2.2 Missing and Incomplete Data"),
       Paragraph("2.2/1", <<>>), Paragraph("2.2/2", <<>>),
       Heading("2.3 Inconsistent Category Naming"), Paragraph("2.3", <<>>),
       Heading("2.4 Strategies Used to Identify Errors"), Paragraph("2.4", <<>>),
       Heading("3. Data Cleaning and Transformation"),
       Paragraph("3/1", <<>>), Paragraph("3/2", <<>>) >>

\* section 4: .iloc[...] on an empty selection or past the last row raises
section_4(r) ==
    RunStatements(
      << Stmt(TRUE, << Heading("4. Spending Trends Analysis"),
                       Heading("4.1 Chain Performance Overview") >>),
         Stmt("ABC" \in Range(r.chain_df), <<>>),
         Stmt("XYZ" \in Range(r.chain_df),
              << Paragraph("4.1", << From("chain_df") >>) >> \o
              add_chart("01_chain_comparison.png", "Figure 1") \o
              << Heading("4.2 Spending by Season") >>),
         Stmt(r.season_df >= 3,
              << Paragraph("4.2", << From("season_df") >>) >> \o
              add_chart("03_seasonal_spending.png", "Figure 2") \o
              << Heading("4.3 Spending by Gender") >>),
         Stmt("M" \in Range(r.gender_df), <<>>),
         Stmt("F" \in Range(r.gender_df),
              << Paragraph("4.3", << From("gender_df") >>) >> \o
              add_chart("04_gender_spending.png", "Figure 3") \o
              << Heading("4.4 Spending by Region") >>),
         Stmt(r.top_states >= 5,
              << Paragraph("4.4", << From("top_states") >>) >> \o
              add_chart("05_top_states_profit.png", "Figure 4") \o
              << Heading("4.5 Spending by Customers With and Without Children"),
                 Paragraph("4.5", <<>>) >> \o
              add_chart("09_children_spending.png", "Figure 5")) >>)

\* section 5: two tables of at most five rows each
section_5(r) ==
    << Heading("5. Product Performance Analysis"),
       Heading("5.1 Best Selling Products"), Paragraph("5.1", <<>>) >> \o
    add_table("top5", From("top5")) \o
    << Heading("5.2 Worst Selling Products"), Paragraph("5.2", <<>>) >> \o
    add_table("bot5", From("bot5")) \o
    add_chart("06_best_worst_products.png", "Figure 6")

section_6(r) ==
    RunStatements(
      << Stmt(TRUE, << Heading("6. Profitability Analysis"),
                       Heading("6.1 Profitability by Category") >>),
         Stmt(r.cat_df >= 3,
              << Paragraph("6.1", << From("cat_df") >>) >> \o
              add_table("cat_df", From("cat_df")) \o
              add_chart("07_category_profitability.png", "Figure 7") \o
              << Heading("6.2 Purchase Method Analysis") >>),
         Stmt(r.method_df >= 3,
              << Paragraph("6.2", << From("method_df") >>) >> \o
              add_chart("10_purchase_method.png", "Figure 8") \o
              << Heading("6.3 AM vs PM Spending Patterns"), Paragraph("6.3", <<>>) >> \o
              add_chart("08_am_pm_spending.png", "Figure 9")) >>)

\* section 7: the paragraph of 7.1 and the table of 7.4 only with a forecast
\* table; the four charts whenever their files exist
section_7(fdf, total) ==
    << Heading("7. Revenue Forecasting (July 2025 - June 2026)"), Paragraph("7", <<>>),
       Heading("7.1 Combined Entity Forecast") >> \o
    (IF fdf # None THEN << Paragraph("7.1", << Money1f(total) >>) >> ELSE <<>>) \o
    add_chart("11_combined_forecast.png", "Figure 10") \o
    add_chart("14_forecast_bar.png", "Figure 11") \o
    << Heading("7.2 Seasonal Trend Decomposition"), Paragraph("7.2", <<>>) >> \o
    add_chart("12_forecast_components.png", "Figure 12") \o
    << Heading("7.3 Individual Chain Forecasts"), Paragraph("7.3", <<>>) >> \o
    add_chart("13_chain_forecasts.png", "Figure 13") \o
    (IF fdf # None
     THEN << Heading("7.4 Forecast Summary Table"), Paragraph("7.4", <<>>) >> \o
          add_table("forecast_df", fdf)
     ELSE <<>>)

\* section 8: the summary table and a paragraph on its first two rows
section_8(r) ==
    RunStatements(
      << Stmt(TRUE, << Heading("8. Summary Statistics"), Paragraph("8/1", <<>>) >> \o
                    add_table("summary_df", From("summary_df"))),
         Stmt(Len(r.chain_df) >= 2, << Paragraph("8/2", << From("summary_df") >>) >>) >>)

\* section 9 and the references: the second paragraph quotes total_forecast
\* whether or not a forecast was read
section_9(fdf, total) ==
    << Heading("9. Conclusion"), Paragraph("9/1", <<>>),
       Paragraph("9/2", << Money1f(total) >>), Paragraph("9/3", <<>>),
       Heading("References"), Paragraph("references", <<>>) >>

\* most rows of the forecast file
MaxForecastRows == 2

\* a row of the forecast file, its forecast in tenths of a million
ForecastRow(month, tenths) ==
    [c \in {"Month", "Forecast ($M)"} |-> IF c = "Month" THEN Str(month) ELSE Flt(tenths)]

SampleForecast == {ForecastRow("Jul 2025", 125), ForecastRow("Aug 2025", 131)}

\* the forecast file: missing, or written by 07b_forecasting.py
ForecastFiles ==
    {None} \cup {[cols |-> ForecastCols, rows |-> rows] :
                    rows \in UNION {[1..m -> SampleForecast] : m \in 0..MaxForecastRows}}

\* the chart files found: none, all, all but those of the forecast, or only
\* those of the forecast
ChartSets == { {}, AnalysisCharts \cup ForecastCharts, AnalysisCharts, ForecastCharts }

\* what the queries of section [1] return: the chains and genders in group
\* order, the number of rows of the other results
QueryResults(chains, seasons, genders, states, cats, methods) ==
    [chain_df |-> chains, season_df |-> seasons, gender_df |-> genders,
     top_states |-> states, cat_df |-> cats, method_df |-> methods]

\* a full store; a store of one chain; one with two categories; an empty one
SampleResults ==
    { QueryResults(<< "ABC", "XYZ" >>, 4, << "F", "M" >>, 5, 7, 3),
      QueryResults(<< "ABC" >>,        4, << "F", "M" >>, 5, 7, 3),
      QueryResults(<< "ABC", "XYZ" >>, 4, << "F", "M" >>, 5, 2, 3),
      QueryResults(<<>>,               0, <<>>,           0, 0, 0) }

RepInit ==
    /\ Idle01
    /\ GenIdle
    /\ DbIdle
    /\ VocIdle
    /\ rep_pc = "rep_pull"
    /\ rep_err = <<>>
    /\ results = None
    /\ \E f \in ForecastFiles : \E cs \in ChartSets :
          outputs = [forecast |-> f, charts |-> cs]
    /\ forecast_df = None
    /\ total_forecast = 0
    /\ doc = <<>>
    /\ report = <<>>

\* [1] the queries are run against the store
RepPull ==
    /\ rep_pc = "rep_pull"
    /\ results' \in SampleResults
    /\ rep_pc' = "rep_forecast"
    /\ UNCHANGED << rep_err, outputs, forecast_df, total_forecast, doc, report >>
    /\ UNCHANGED << vars01, vars07, varsDb, varsVoc >>

\* the forecast CSV is read if it exists
RepLoadForecast ==
    /\ rep_pc = "rep_forecast"
    /\ IF outputs.forecast # None
       THEN /\ forecast_df' = outputs.forecast
            /\ total_forecast' = SumForecast(outputs.forecast.rows)
       ELSE UNCHANGED << forecast_df, total_forecast >>
    /\ rep_pc' = "rep_front"
    /\ UNCHANGED << rep_err, results, outputs, doc, report >>
    /\ UNCHANGED << vars01, vars07, varsDb, varsVoc >>

\* [2] title page and sections 1 to 3
RepFrontMatter ==
    /\ rep_pc = "rep_front"
    /\ doc' = doc \o front_matter
    /\ rep_pc' = "rep_4"
    /\ UNCHANGED << rep_err, results, outputs, forecast_df, total_forecast, report >>
    /\ UNCHANGED << vars01, vars07, varsDb, varsVoc >>

RepSection4 ==
    /\ rep_pc = "rep_4"
    /\ LET res == section_4(results)
       IN  /\ doc' = doc \o res.adds
           /\ rep_err' = IF res.err = "" THEN <<>> ELSE << res.err, 4 >>
           /\ rep_pc' = IF res.err = "" THEN "rep_5" ELSE "rep_error"
    /\ UNCHANGED << results, outputs, forecast_df, total_forecast, report >>
    /\ UNCHANGED << vars01, vars07, varsDb, varsVoc >>

RepSection5 ==
    /\ rep_pc = "rep_5"
    /\ doc' = doc \o section_5(results)
    /\ rep_pc' = "rep_6"
    /\ UNCHANGED << rep_err, results, outputs, forecast_df, total_forecast, report >>
    /\ UNCHANGED << vars01, vars07, varsDb, varsVoc >>

RepSection6 ==
    /\ rep_pc = "rep_6"
    /\ LET res == section_6(results)
       IN  /\ doc' = doc \o res.adds
           /\ rep_err' = IF res.err = "" THEN <<>> ELSE << res.err, 6 >>
           /\ rep_pc' = IF res.err = "" THEN "rep_7" ELSE "rep_error"
    /\ UNCHANGED << results, outputs, forecast_df, total_forecast, report >>
    /\ UNCHANGED << vars01, vars07, varsDb, varsVoc >>

RepSection7 ==
    /\ rep_pc = "rep_7"
    /\ doc' = doc \o section_7(forecast_df, total_forecast)
    /\ rep_pc' = "rep_8"
    /\ UNCHANGED << rep_err, results, outputs, forecast_df, total_forecast, report >>
    /\ UNCHANGED << vars01, vars07, varsDb, varsVoc >>

RepSection8 ==
    /\ rep_pc = "rep_8"
    /\ LET res == section_8(results)
       IN  /\ doc' = doc \o res.adds
           /\ rep_err' = IF res.err = "" THEN <<>> ELSE << res.err, 8 >>
           /\ rep_pc' = IF res.err = "" THEN "rep_9" ELSE "rep_error"
    /\ UNCHANGED << results, outputs, forecast_df, total_forecast, report >>
    /\ UNCHANGED << vars01, vars07, varsDb, varsVoc >>

RepSection9 ==
    /\ rep_pc = "rep_9"
    /\ doc' = doc \o section_9(forecast_df, total_forecast)
    /\ rep_pc' = "rep_save"
    /\ UNCHANGED << rep_err, results, outputs, forecast_df, total_forecast, report >>
    /\ UNCHANGED << vars01, vars07, varsDb, varsVoc >>

\* [3] doc.save(REPORT_OUT)
RepSave ==
    /\ rep_pc = "rep_save"
    /\ report' = doc
    /\ rep_pc' = "rep_saved"
    /\ UNCHANGED << rep_err, results, outputs, forecast_df, total_forecast, doc >>
    /\ UNCHANGED << vars01, vars07, varsDb, varsVoc >>

RepNext ==
    \/ RepPull
    \/ RepLoadForecast
    \/ RepFrontMatter
    \/ RepSection4
    \/ RepSection5
    \/ RepSection6
    \/ RepSection7
    \/ RepSection8
    \/ RepSection9
    \/ RepSave

SpecRep == RepInit /\ [][RepNext]_vars

(***************************************************************************)
(* Properties of the clean-and-merge run                                   *)
(***************************************************************************)
NA_abc == Len(abc_raw.rows)
NX_xyz == Len(xyz_raw.rows)

\* the row of the extracts that row i of the merged frame came from
SourceRow(i) ==
    IF i <= NA_abc THEN abc_raw.rows[i] ELSE xyz_raw.rows[i - NA_abc]
SourceChain(i) == IF i <= NA_abc THEN "ABC" ELSE "XYZ"

MergedRows == IF "merged" \in have THEN 1..Len(merged.rows) ELSE {}

\* C1 (row conservation): whenever the run has produced the merged frame, it
\* has exactly len(ABC) + len(XYZ) rows, and so have the working copies and
\* the cleaned frames of their own source; no step adds, drops or
\* deduplicates a row.
C1_RowConservation ==
    /\ pc \notin {"load"} =>
          Len(abc.rows) = NA_abc /\ Len(xyz.rows) = NX_xyz
    /\ "abc_clean" \in have => Len(abc_clean.rows) = NA_abc
    /\ "xyz_clean" \in have => Len(xyz_clean.rows) = NX_xyz
    /\ "merged" \in have => Len(merged.rows) = NA_abc + NX_xyz

\* a finished run whose two sources both have rows, two of them equal, one
\* with a defective date
C1_Witness ==
    /\ pc = "done"
    /\ NA_abc >= 2 /\ NX_xyz >= 1
    /\ abc_raw.rows[1] = abc_raw.rows[2]
    /\ \E i \in 1..NA_abc : abc_raw.rows[i].order_purchase_date.k # "ts"

\* C2 (corruption detection), as claimed: no row of the merged frame carries
\* a valid date of year 1970, whichever source it came from.
C2_No1970InMerged ==
    \A i \in MergedRows :
       merged.rows[i].order_purchase_date.k = "ts"
          => merged.rows[i].order_purchase_date.y # 1970

\* the season table of the data model
SeasonOfMonth(m) ==
    CASE m \in {12, 1, 2}   -> "Winter"
      [] m \in {3, 4, 5}    -> "Spring"
      [] m \in {6, 7, 8}    -> "Summer"
      [] m \in {9, 10, 11}  -> "Fall"

DateFieldsConsistent(r) ==
    LET d == r.order_purchase_date
    IN  IF IsNa(d)
        THEN /\ IsNa(r.order_month)
             /\ IsNa(r.order_month_name)
             /\ IsNa(r.order_year)
             /\ IsNa(r.season)
        ELSE /\ r.order_month = Num(d.m)
             /\ r.order_month_name = Str(MonthNames[d.m])
             /\ r.order_year = Num(d.y)
             /\ r.season = Str(SeasonOfMonth(d.m))

\* C3 (sentinel consistency): in every record of the merged frame, an unknown
\* order_purchase_date comes with unknown order_month, order_month_name,
\* order_year and season, and a known date with all four known and equal to
\* the month, month name, year and season of that date.
C3_SentinelConsistency ==
    \A i \in MergedRows : DateFieldsConsistent(merged.rows[i])

\* a finished run whose merged frame has a record with an unknown date that
\* was reset from 1970, and a record with a known date
C3_Witness ==
    /\ pc = "done"
    /\ \E i \in MergedRows :
          /\ IsNa(merged.rows[i].order_purchase_date)
          /\ to_datetime(SourceRow(i).order_purchase_date) = Ts(1970, 1, 1)
    /\ \E i \in MergedRows : merged.rows[i].order_purchase_date.k = "ts"

Canonical == {"Appetizers", "Beverages", "Dessert", "Pasta", "Pizza", "Salads",
              "Sandwiches"}

MapOfChain(ch) == IF ch = "ABC" THEN category_map_abc ELSE category_map_xyz

\* C4 (vocabulary closure): every item_category of the merged frame is one of
\* the seven canonical values, or it is the very value the record had in its
\* source's raw data and that value is no key of that source's mapping table.
C4_VocabularyClosure ==
    \A i \in MergedRows :
       LET c   == merged.rows[i].item_category
           raw == SourceRow(i).item_category
       IN  \/ c.k = "str" /\ c.s \in Canonical
           \/ /\ c = raw
              /\ ~(raw.k = "str" /\ raw.s \in DOMAIN MapOfChain(SourceChain(i)))

\* a finished run in which ABC's 'salad' was mapped and an unrecognised raw
\* value passed through
C4_Witness ==
    /\ pc = "done"
    /\ \E i \in MergedRows :
          /\ SourceRow(i).item_category = Str("salad")
          /\ merged.rows[i].item_category = Str("Salads")
    /\ \E i \in MergedRows :
          /\ merged.rows[i].item_category.k = "str"
          /\ merged.rows[i].item_category.s \notin Canonical

\* C5 (merge order and provenance): row i of the merged frame is the record of
\* row i of ABC for i up to len(ABC) and of row i - len(ABC) of XYZ after that
\* (so ABC's rows precede XYZ's and each source keeps its order), and its chain
\* tag names that source.
C5_MergeOrder ==
    \A i \in MergedRows :
       /\ merged.rows[i].customer_id = SourceRow(i).customer_id
       /\ merged.rows[i].chain = Str(SourceChain(i))

\* a finished run with two different ABC rows and an XYZ row
C5_Witness ==
    /\ pc = "done"
    /\ NA_abc >= 2 /\ NX_xyz >= 1
    /\ abc_raw.rows[1].customer_id # abc_raw.rows[2].customer_id

\* a normalized source lacks a declared shared column
LacksSharedColumn ==
    \E i \in 1..Len(shared_cols) :
       shared_cols[i] \notin Range(abc.cols) \/ shared_cols[i] \notin Range(xyz.cols)

\* C7 (structural error halts the run): the run never gets past unification
\* while a normalized source lacks a declared shared column; it ends there with
\* a KeyError, the merged frame is not produced and no output file is written.
C7_StructuralErrorHalts ==
    /\ pc \in {"merge", "validate", "save", "done"} => ~LacksSharedColumn
    /\ (pc = "error" /\ err[2] = 5) =>
          /\ LacksSharedColumn
          /\ err[1] = "KeyError"
          /\ "merged" \notin have
          /\ DOMAIN files = {}
    /\ pc = "error" => DOMAIN files = {}

\* a run that ended at unification because normalized XYZ lacks 'Profit',
\* after abc[shared_cols] had succeeded
C7_Witness ==
    /\ pc = "error"
    /\ err = <<"KeyError", 5>>
    /\ ~HasCol(xyz, "Profit")
    /\ "abc_clean" \in have
    /\ NA_abc >= 1

\* C8 (guarded column drop), as claimed: item_product_cost is gone from XYZ
\* only if it was missing in every row of the XYZ extract.
C8_DropOnlyIfAllMissing ==
    (HasCol(xyz_raw, "item_product_cost") /\ pc \notin {"load", "tag"}
       /\ ~HasCol(xyz, "item_product_cost"))
    => \A i \in 1..NX_xyz : IsNa(xyz_raw.rows[i].item_product_cost)

\* C9 (unknown time propagates), as claimed: a record whose
\* order_purchase_time is unknown has an unknown time_of_day.
C9_UnknownTimeUnknownFlag ==
    \A i \in MergedRows :
       IsNa(merged.rows[i].order_purchase_time) => IsNa(merged.rows[i].time_of_day)

\* C10 (AM / PM): in every record of the merged frame whose
\* order_purchase_time is a known time HH:MM, time_of_day is AM exactly when
\* HH is in 0..11 and PM exactly when HH is in 12..23.
C10_AmPm ==
    \A i \in MergedRows :
       LET r == merged.rows[i]
       IN  r.order_purchase_time.k = "hm" =>
              /\ r.time_of_day = Str("AM") <=> r.order_purchase_time.h \in 0..11
              /\ r.time_of_day = Str("PM") <=> r.order_purchase_time.h \in 12..23

\* a finished run with an ABC record at 12:00, an ABC record at 11:59 and an
\* XYZ record in the afternoon
C10_Witness ==
    /\ pc = "done"
    /\ \E i \in MergedRows :
          /\ SourceChain(i) = "ABC"
          /\ merged.rows[i].order_purchase_time = HM(12, 0)
          /\ merged.rows[i].time_of_day = Str("PM")
    /\ \E i \in MergedRows :
          /\ SourceChain(i) = "ABC"
          /\ merged.rows[i].order_purchase_time = HM(11, 59)
          /\ merged.rows[i].time_of_day = Str("AM")
    /\ \E i \in MergedRows :
          /\ SourceChain(i) = "XYZ"
          /\ merged.rows[i].order_purchase_time.k = "hm"
          /\ merged.rows[i].time_of_day = Str("PM")

\* the integer a raw order_number denotes; unknown when it denotes none
IntegerDenoted(c) ==
    CASE c.k = "num" -> c
      [] c.k = "str" /\ c.s \in DOMAIN NumText /\ NumText[c.s].k = "num" -> NumText[c.s]
      [] OTHER -> NA

\* C11 (identifier repair), as claimed: in either source the coercion of
\* order_number does not raise, and the merged record carries the integer its
\* raw value denotes (an integer, or text of an integer) and unknown for every
\* other raw value (text with a fraction, other text, missing).
C11_IdentifierRepair ==
    /\ ~(/\ pc = "error"
          /\ err = <<"TypeError", 3>>
          /\ \E i \in 1..Len(abc.rows) :
                 Int64Raises(to_numeric(abc.rows[i].order_number)))
    /\ \A i \in MergedRows :
          LET want == IntegerDenoted(SourceRow(i).order_number)
              got  == merged.rows[i].order_number
          IN  IF IsNa(want) THEN IsNa(got) ELSE got = want

\* both extracts have every expected column
AllColumnsPresent == abc_raw.cols = RawColsABC /\ xyz_raw.cols = RawColsXYZ

\* C12 (defects never interrupt the run), as claimed: when both extracts have
\* all their columns, no step of the run raises, whatever values are
\* malformed or missing.
C12_DefectsNeverInterrupt == AllColumnsPresent => pc # "error"

\* the normalization steps of XYZ (4b to 4e), applied again
renormalise_xyz(t) == Then(Then(Then(Step4b(t), Step4c), Step4d), Step4e)

\* C13 (normalizer idempotence), as claimed: applying a source's
\* normalization steps to the frame they produced raises nothing and leaves
\* every field of every record as it is.
C13_NormalizerIdempotent ==
    /\ pc \in {"clean_xyz", "align", "merge", "validate", "save", "done"} =>
          LET again == clean_abc(abc)
          IN  again.err = "" /\ again.t = abc
    /\ pc \in {"align", "merge", "validate", "save", "done"} =>
          LET again == renormalise_xyz(xyz)
          IN  again.err = "" /\ again.t = xyz

\* the category sets the validator has reported for the merged frame
ReportedCategories ==
    {log_lines[k].data : k \in {j \in 1..Len(log_lines) : log_lines[j].tag = "CATEGORIES"}}

XyzHasBeverage == \E j \in 1..NX_xyz : xyz_raw.rows[j].item_category = Str("Beverage")
AbcHasBeverage == \E j \in 1..NA_abc : abc_raw.rows[j].item_category = Str("Beverage")

\* C15 (singular / plural scenario), as claimed: when XYZ has the category
\* 'Beverage', every such value is 'Beverages' after normalization and no
\* category set the validator reports for the merged frame has 'Beverage'.
C15_NoBeverageReported ==
    XyzHasBeverage =>
       /\ \A i \in MergedRows :
             (SourceChain(i) = "XYZ" /\ SourceRow(i).item_category = Str("Beverage"))
                => merged.rows[i].item_category = Str("Beverages")
       /\ \A cats \in ReportedCategories : Str("Beverage") \notin cats

\* C15, amended: when XYZ has the category 'Beverage', every such value is
\* 'Beverages' after normalization, and a category set the validator reports
\* for the merged frame has 'Beverage' only if an ABC record had the raw value
\* 'Beverage' (which ABC's table does not map and therefore passes through).
C15_NoBeverageFromXYZ ==
    XyzHasBeverage =>
       /\ \A i \in MergedRows :
             (SourceChain(i) = "XYZ" /\ SourceRow(i).item_category = Str("Beverage"))
                => merged.rows[i].item_category = Str("Beverages")
       /\ ~AbcHasBeverage =>
             \A cats \in ReportedCategories : Str("Beverage") \notin cats

\* a finished run in which XYZ had 'Beverage', ABC had rows but no 'Beverage',
\* and the validator reported 'Beverages'
C15_Witness ==
    /\ pc = "done"
    /\ XyzHasBeverage
    /\ NA_abc >= 1 /\ ~AbcHasBeverage
    /\ \E cats \in ReportedCategories : Str("Beverages") \in cats

\* C14 (vocabulary map idempotence): for either source's map and any value,
\* the value after two or more applications of the map with identity fallback
\* is the value after one application, and a canonical value is left as it is
\* by every application.
C14_MapIdempotent ==
    /\ voc_n >= 1 => voc_val = map_category(MapOfChain(voc_chain), voc_raw)
    /\ (voc_raw.k = "str" /\ voc_raw.s \in Canonical) => voc_val = voc_raw

\* a raw spelling of each source after its second application, and a
\* canonical value after its second application
C14_Witness ==
    /\ voc_n >= 2
    /\ \/ voc_chain = "XYZ" /\ voc_raw = Str("Beverage") /\ voc_val = Str("Beverages")
       \/ voc_chain = "ABC" /\ voc_raw = Str("salad") /\ voc_val = Str("Salads")

(***************************************************************************)
(* Properties of the column layout                                         *)
(***************************************************************************)
\* C6 (exact shared layout), the part about 01_clean_and_merge.py: each
\* cleaned frame, the merged frame and every file written from them has
\* exactly the columns of shared_cols, in that order.
C6_LayoutCleanAndMerge ==
    /\ "abc_clean" \in have => abc_clean.cols = shared_cols
    /\ "xyz_clean" \in have => xyz_clean.cols = shared_cols
    /\ "merged" \in have => merged.cols = shared_cols
    /\ \A f \in DOMAIN files \ {"cleaning_log.txt"} : files[f].cols = shared_cols

\* C6 (exact shared layout), as claimed, for the 2025 generator: whatever
\* columns the cleaned files have, each of the three files it writes has
\* exactly the columns of shared_cols, in that order.
C6_LayoutGenerator ==
    \A f \in DOMAIN gen_files \cap GenOutputs : gen_files[f].cols = shared_cols

(***************************************************************************)
(* Properties of the store                                                 *)
(***************************************************************************)
FourTables == {"orders", "restaurants", "products", "customers"}

\* the key of a row under the key columns
KeyOf(r, key) == [n \in 1..Len(key) |-> r[key[n]]]

\* no two rows of the table, if it exists, agree on the key columns
UniqueOn(name, key) ==
    name \in DOMAIN db =>
       \A i, j \in 1..Len(db[name].rows) :
          KeyOf(db[name].rows[i], key) = KeyOf(db[name].rows[j], key) => i = j

\* C16 (dimension uniqueness): in the store of either loader, at any point of
\* any run, no two rows of restaurants share a restaurant_id, no two rows of
\* customers share a customer_id, and no two rows of products share the pair
\* (item_number, chain).
C16_DimensionUniqueness ==
    /\ UniqueOn("restaurants", << "restaurant_id" >>)
    /\ UniqueOn("customers", << "customer_id" >>)
    /\ UniqueOn("products", << "item_number", "chain" >>)

\* a completed load of the 07 loader (whose tables have no key constraint) of
\* two rows of the same restaurant and product
C16_Witness ==
    /\ db_pc = "done"
    /\ loader = "07"
    /\ Len(db_in.rows) = 2
    /\ Len(db["restaurants"].rows) = 1
    /\ Len(db["products"].rows) = 1

\* the distinct keys the frame shows under the key columns, as stored values
KeysObserved(df, key) ==
    {[n \in 1..Len(key) |-> sql_value(df.rows[i][key[n]])] : i \in 1..Len(df.rows)}
KeysStored(name, key) ==
    {KeyOf(db[name].rows[i], key) : i \in 1..Len(db[name].rows)}

\* the table holds exactly one row for each key the frame shows
HoldsKeysOf(name, key, df) ==
    /\ name \in DOMAIN db
    /\ KeysStored(name, key) = KeysObserved(df, key)
    /\ Len(db[name].rows) = Cardinality(KeysObserved(df, key))

\* the input is a merged dataset: it has every shared column
IsMergedDataset(df) == df.cols = shared_cols

\* C17 (products keyed by (item_number, chain)), as claimed: for a merged
\* dataset the products load is never rejected, and once it is done the
\* products table has exactly one row for each (item_number, chain) pair of
\* the dataset.
C17_ProductsKeyedByPair ==
    IsMergedDataset(db_in) =>
       /\ ~(db_pc = "error" /\ db_err[2] = "products")
       /\ db_pc \in {"customers", "close", "done"} =>
             HoldsKeysOf("products", << "item_number", "chain" >>, db_in)

\* the store holds what the frame gives: a row of orders for each row, in
\* order, and a row of each dimension for each of its keys
HoldsContentsOf(df) ==
    /\ "orders" \in DOMAIN db
    /\ Len(db["orders"].rows) = Len(df.rows)
    /\ \A i \in 1..Len(df.rows) :
          db["orders"].rows[i].customer_id = sql_value(df.rows[i].customer_id)
    /\ HoldsKeysOf("restaurants", << "restaurant_id" >>, df)
    /\ HoldsKeysOf("products", << "item_number", "chain" >>, df)
    /\ HoldsKeysOf("customers", << "customer_id" >>, df)

\* C18 (full replace on reload), as claimed: whenever a run against the store
\* has ended, the four tables hold exactly what the merged dataset of that
\* run gives, whatever earlier runs left.
C18_FullReplace ==
    (db_pc \in {"done", "error"} /\ IsMergedDataset(db_in)) => HoldsContentsOf(db_in)

\* the store a run of the loader gives from an empty store
FreshLoad(ld, df) ==
    LET s0 == IF ld = "02" THEN created_tables ELSE [t \in {} |-> EmptyFrame]
        s1 == load_orders(ld, df, s0).db
        s2 == load_restaurants(df, s1).db
        s3 == load_products(df, s2).db
    IN  load_customers(df, s3).db

\* C18, the part that holds: a run that completes leaves the store exactly as
\* the same run against an empty store would, whatever the store held before.
C18_ReplaceOnCompletedRuns ==
    db_pc = "done" => db = FreshLoad(loader, db_in)

\* the table is as a complete load of the frame leaves it
CompleteNew(name, df) ==
    CASE name = "orders" ->
           "orders" \in DOMAIN db /\ Len(db["orders"].rows) = Len(df.rows)
      [] name = "restaurants" ->
           HasCol(df, "restaurant_id") /\ HoldsKeysOf(name, << "restaurant_id" >>, df)
      [] name = "products" ->
           HasCol(df, "item_number") /\ HoldsKeysOf(name, << "item_number", "chain" >>, df)
      [] name = "customers" ->
           HasCol(df, "customer_id") /\ HoldsKeysOf(name, << "customer_id" >>, df)

\* the store held the four tables, each with rows, when the run connected
HeldLoadedTables ==
    \A name \in FourTables : name \in DOMAIN db_prev /\ db_prev[name].rows # <<>>

\* C19 (atomic table replace), as claimed: when a run against a store that
\* held the four loaded tables fails, each table is either exactly as it was
\* before the run or completely loaded from the new input; none is left
\* dropped, empty or partly loaded.
C19_AtomicReplace ==
    (db_pc = "error" /\ HeldLoadedTables) =>
       \A name \in FourTables :
          \/ name \in DOMAIN db /\ db[name] = db_prev[name]
          \/ CompleteNew(name, db_in)

\* the name under which a column of the frame is stored in orders
StoredAs(c) == IF c = "Profit" THEN "profit" ELSE c

\* the orders table has one row for each row of the frame, in order, and
\* stores each of the listed columns of the frame
OrdersStore(cols) ==
    /\ Len(db["orders"].rows) = Len(db_in.rows)
    /\ \A c \in cols :
          /\ StoredAs(c) \in Range(db["orders"].cols)
          /\ \A i \in 1..Len(db_in.rows) :
                c \in DOMAIN db_in.rows[i] =>
                   /\ c \in DOMAIN db["orders"].rows[i]
                   /\ db["orders"].rows[i][c] = sql_value(db_in.rows[i][c])

\* C20 (fact table completeness), as claimed: after a successful load the
\* orders table has one row for each row of the merged dataset, in the same
\* order, and stores every column of the merged dataset.
C20_OrdersStoreEveryColumn ==
    db_pc = "done" => OrdersStore(Range(db_in.cols))

\* the columns 02 keeps in the restaurants table only
RestaurantOnly == {"restaurant_city", "restaurant_state", "restaurant_zip_code"}

\* C20, amended: after a successful load the orders table has one row for each
\* row of the merged dataset, in the same order; the loader of 07 stores every
\* column of the merged dataset in it, and 02_load_database stores every
\* column except restaurant_city, restaurant_state and restaurant_zip_code,
\* which it keeps in the restaurants table only ('Profit' is stored as
\* 'profit').
C20_OrdersStoreFactColumns ==
    db_pc = "done" =>
       IF loader = "02"
       THEN /\ OrdersStore(Range(db_in.cols) \ RestaurantOnly)
            /\ \A c \in RestaurantOnly : c \notin Range(db["orders"].cols)
       ELSE OrdersStore(Range(db_in.cols))

\* a completed load by 02 of two different rows
C20_Witness ==
    /\ db_pc = "done"
    /\ loader = "02"
    /\ Len(db_in.rows) = 2
    /\ db_in.rows[1] # db_in.rows[2]
    /\ db["orders"].rows[2].chain = Str("XYZ")

(***************************************************************************)
(* Properties of the quality report                                        *)
(***************************************************************************)
\* section 7 has logged its null counts
NullsReported ==
    \/ pc \in {"save", "done"}
    \/ pc = "error" /\ err = <<"TypeError", 7>>

\* the positions of the log that hold the null finding of column c
FindingsOf(c) ==
    {n \in 1..Len(log_lines) :
        log_lines[n].tag = "NULLS" /\ log_lines[n].data[1] = c}

\* the merged rows whose value of column c is unknown
UnknownRows(c) == {i \in 1..Len(merged.rows) : IsNa(merged.rows[i][c])}

\* p is n / total as a percentage, to the nearest hundredth
IsPercentage(p, n, total) ==
    /\ p.k = "num"
    /\ LET d == p.v * total - n * 10000
       IN  (IF d < 0 THEN 0 - d ELSE d) * 2 <= total

\* C21: once the validator has reported the null counts, a column of the
\* merged dataset has a finding exactly when some merged row is unknown in
\* it, it has only one, the finding states the number of such rows and that
\* number as a percentage of the merged rows; so every value that the
\* normalization turned into unknown is covered by a finding
C21_NullCounts ==
    NullsReported =>
        \A c \in Range(merged.cols) \cap Tracked :
            /\ UnknownRows(c) = {} => FindingsOf(c) = {}
            /\ UnknownRows(c) # {} =>
                  /\ Cardinality(FindingsOf(c)) = 1
                  /\ \A n \in FindingsOf(c) :
                        /\ log_lines[n].data[2] = Cardinality(UnknownRows(c))
                        /\ IsPercentage(log_lines[n].data[3],
                                        Cardinality(UnknownRows(c)),
                                        Len(merged.rows))

\* a finished run of three rows in which the date repair turned one known
\* date of 1970 into unknown and another row had no date: two of three
C21_Witness ==
    /\ pc = "done"
    /\ Len(merged.rows) = 3
    /\ Cardinality(UnknownRows("order_purchase_date")) = 2
    /\ \E i \in 1..NA_abc : /\ abc_raw.rows[i].order_purchase_date = Ts(1970, 1, 1)
                             /\ IsNa(merged.rows[i].order_purchase_date)
    /\ \E n \in FindingsOf("order_purchase_date") :
          log_lines[n].data = << "order_purchase_date", 2, Num(6667) >>

\* the positions of the log written under the heading of section k
SectionLines(k) ==
    {n \in 1..Len(log_lines) :
        \E h \in 1..n :
           /\ log_lines[h] = Msg("SECTION", <<k>>)
           /\ \A j \in (h + 1)..n : log_lines[j].tag # "SECTION"}

\* the corrupt-date counts / percentages stated under the heading of section k
StatedCorrupt(k) ==
    {log_lines[n].data[1] : n \in {j \in SectionLines(k) : log_lines[j].tag = "DATE_CORRUPT"}}
StatedCorruptPct(k) ==
    {log_lines[n].data[1] :
        n \in {j \in SectionLines(k) : log_lines[j].tag = "DATE_CORRUPT_PCT"}}

\* the rows of an extract whose raw date is the 1970 sentinel, and whether the
\* extract has one such row and sound dates otherwise
EpochRows(raw) ==
    {i \in 1..Len(raw.rows) : dt_year(to_datetime(raw.rows[i].order_purchase_date)) = Num(1970)}
OneEpochRow(raw) ==
    /\ Cardinality(EpochRows(raw)) = 1
    /\ \A i \in 1..Len(raw.rows) : to_datetime(raw.rows[i].order_purchase_date).k = "ts"

\* the merged rows of a source whose date is unknown
UnknownDates(ch) ==
    {i \in 1..Len(merged.rows) :
        merged.rows[i].chain = Str(ch) /\ IsNa(merged.rows[i].order_purchase_date)}

\* the scenario for one source: with one row of 1970 among sound rows, one
\* normalized row of the source has an unknown date and the report states,
\* under the heading of the source's section k, the count 1 and 1 / rows as a
\* percentage; with ten rows that is 10.0
ScenarioHolds(raw, ch, k) ==
    OneEpochRow(raw) =>
        /\ Cardinality(UnknownDates(ch)) = 1
        /\ StatedCorrupt(k) = {1}
        /\ \A p \in StatedCorruptPct(k) : IsPercentage(p, 1, Len(raw.rows))
        /\ StatedCorruptPct(k) # {}
        /\ Len(raw.rows) = 10 => StatedCorruptPct(k) = {Num(1000)}

\* C22 as claimed: in a finished run the report states, for a source, the
\* number of its rows that the date repair reset to unknown and that number
\* over the source's row count, and the scenario holds for a source of either
\* chain
C22_CorruptDateCount ==
    pc = "done" =>
        /\ ScenarioHolds(abc_raw, "ABC", 3)
        /\ ScenarioHolds(xyz_raw, "XYZ", 4)

\* C22, the part that holds: the count stated for ABC is the number of ABC
\* rows reset by step 3a, the percentage is that count over ABC's rows, and
\* the scenario holds for ABC
C22_CorruptDateCountABC ==
    pc = "done" =>
        /\ StatedCorrupt(3) = {Cardinality(EpochRows(abc_raw))}
        /\ \A i \in EpochRows(abc_raw) : IsNa(merged.rows[i].order_purchase_date)
        /\ Len(abc_raw.rows) > 0 =>
              /\ StatedCorruptPct(3) # {}
              /\ \A p \in StatedCorruptPct(3) :
                    IsPercentage(p, Cardinality(EpochRows(abc_raw)), Len(abc_raw.rows))
        /\ ScenarioHolds(abc_raw, "ABC", 3)

\* the ten-row ABC scenario has run to its end
C22_ScenarioABC ==
    pc = "done" /\ Len(abc_raw.rows) = 10 /\ OneEpochRow(abc_raw)

\* C23 as claimed: the validation step leaves the merged dataset as it was
\* and is followed by the save step, whatever it finds
C23_ValidatorNonBlocking ==
    [][pc = "validate" => (merged' = merged /\ pc' = "save")]_vars

\* C23, the part that holds: the validation step writes no frame
C23_ValidatorReadOnly ==
    [][pc = "validate" =>
          /\ merged' = merged
          /\ abc_clean' = abc_clean
          /\ xyz_clean' = xyz_clean]_vars

\* C24 as claimed: the log file of a finished run holds every message passed
\* to log() during the run, one entry each, in the order logged
C24_LogFileComplete ==
    pc = "done" => files["cleaning_log.txt"] = log_lines

\* C24, the part that holds: the file holds, in order, every message logged up
\* to the moment it is written; the messages it lacks are the five logged
\* after that
C24_LogFileIsPrefix ==
    pc = "done" =>
        LET written == files["cleaning_log.txt"]
        IN  /\ Len(log_lines) = Len(written) + 5
            /\ written = SubSeq(log_lines, 1, Len(written))
            /\ \A n \in (Len(written) + 1)..Len(log_lines) :
                  log_lines[n].tag \in {"COMPLETE", "OUTPUT"}

\* the drop findings of the log
DropFindings == {n \in 1..Len(log_lines) : log_lines[n].tag = "DROP"}

\* the missing values of item_product_cost in the extract
MissingCost ==
    Cardinality({i \in 1..NX_xyz : IsNa(xyz_raw.rows[i].item_product_cost)})

\* C25 as claimed: once item_product_cost is dropped, the merged dataset has
\* no such column and the report holds a drop finding that names the column
\* and states the number of values that were missing in it
C25_DropEvent ==
    (HasCol(xyz_raw, "item_product_cost") /\ ~HasCol(xyz, "item_product_cost")
        /\ pc \notin {"load", "tag", "clean_xyz"}) =>
        /\ "merged" \in have => ~HasCol(merged, "item_product_cost")
        /\ DropFindings # {}
        /\ \A n \in DropFindings :
              log_lines[n].data = << "item_product_cost", MissingCost >>

\* C25, the part that holds: the column is out of the merged dataset and one
\* drop finding names it
C25_DropEventNoted ==
    (HasCol(xyz_raw, "item_product_cost") /\ ~HasCol(xyz, "item_product_cost")
        /\ pc \notin {"load", "tag", "clean_xyz"}) =>
        /\ "merged" \in have => ~HasCol(merged, "item_product_cost")
        /\ Cardinality(DropFindings) = 1
        /\ \A n \in DropFindings : log_lines[n].data[1] = "item_product_cost"

(***************************************************************************)
(* Properties of the report generator                                      *)
(***************************************************************************)
\* an element that depends on forecast values: a paragraph that quotes a
\* forecast amount, or the forecast summary table
QuotesForecast(e) ==
    \/ e.el = "paragraph" /\ \E i \in 1..Len(e.quotes) : e.quotes[i].k = "usd_m"
    \/ e.el = "table" /\ e.id = "forecast_df"

\* the store has the rows every section indexes
FiguresExist ==
    /\ results # None
    /\ {"ABC", "XYZ"} \subseteq Range(results.chain_df)
    /\ {"M", "F"} \subseteq Range(results.gender_df)
    /\ results.season_df >= 3 /\ results.top_states >= 5
    /\ results.cat_df >= 3 /\ results.method_df >= 3

\* C26 as claimed: without a forecast file the run still saves the report,
\* and the saved report has no element that depends on forecast values
C26_ReportDegrades ==
    outputs.forecast = None =>
        /\ FiguresExist => rep_pc # "rep_error"
        /\ rep_pc = "rep_saved" =>
              \A n \in 1..Len(report) : ~QuotesForecast(report[n])

\* C26, the part that holds: without a forecast file the run is not stopped,
\* and the paragraph of 7.1 and the table of 7.4 are left out
C26_ForecastSectionOmitted ==
    outputs.forecast = None =>
        /\ FiguresExist => rep_pc # "rep_error"
        /\ rep_pc = "rep_saved" =>
              \A n \in 1..Len(report) :
                 QuotesForecast(report[n]) => report[n].id = "9/2"

\* a report saved without a forecast file
C26_SavedWithoutForecast ==
    rep_pc = "rep_saved" /\ outputs.forecast = None /\ report # <<>>

(***************************************************************************)
(* Properties of the chain tag                                             *)
(***************************************************************************)
\* every row of the frame carries the tag
AllTagged(t, ch) ==
    /\ HasCol(t, "chain")
    /\ \A i \in 1..Len(t.rows) : t.rows[i].chain = Str(ch)

\* C27: from the end of section 2 on, so before any cleaning step, every row
\* of a source's frame carries the source's tag, and it carries the same tag
\* in every later state (working frames, aligned frames, merged dataset); the
\* chain values of the merged dataset are among ABC and XYZ, and are both
\* when neither source is empty
C27_ChainTagSetOnce ==
    /\ pc \notin {"load", "tag"} => AllTagged(abc, "ABC") /\ AllTagged(xyz, "XYZ")
    /\ "abc_clean" \in have => AllTagged(abc_clean, "ABC")
    /\ "xyz_clean" \in have => AllTagged(xyz_clean, "XYZ")
    /\ "merged" \in have =>
          /\ \A i \in MergedRows : merged.rows[i].chain = Str(SourceChain(i))
          /\ Unique(merged, "chain") \subseteq {Str("ABC"), Str("XYZ")}
          /\ (NA_abc > 0 /\ NX_xyz > 0) =>
                Unique(merged, "chain") = {Str("ABC"), Str("XYZ")}
          /\ \A n \in 1..Len(log_lines) :
                log_lines[n].tag = "CHAINS" =>
                   log_lines[n].data = Unique(merged, "chain")

\* a finished run on two sources with rows
C27_Witness ==
    /\ pc = "done"
    /\ NA_abc > 0 /\ NX_xyz > 0
    /\ Unique(files["merged_clean.csv"], "chain") = {Str("ABC"), Str("XYZ")}
    /\ \E n \in 1..Len(log_lines) : log_lines[n].tag = "CHAINS"

(***************************************************************************)
(* Properties of the season mapping                                        *)
(***************************************************************************)
\* the rows of the two frames once season has been derived
SeasonRows ==
    IF pc # "season_done" THEN {}
    ELSE {abc.rows[i] : i \in 1..Len(abc.rows)} \cup {xyz.rows[i] : i \in 1..Len(xyz.rows)}

\* C28: the season derived for a month is Winter for 12, 1, 2, Spring for
\* 3, 4, 5, Summer for 6, 7, 8 and Fall for 9, 10, 11; for an unknown month
\* it is unknown
C28_SeasonMapping ==
    \A r \in SeasonRows :
        /\ r.order_month = NaN => r.season = NaN
        /\ r.order_month # NaN =>
              /\ r.order_month.v \in {12, 1, 2}  => r.season = Str("Winter")
              /\ r.order_month.v \in {3, 4, 5}   => r.season = Str("Spring")
              /\ r.order_month.v \in {6, 7, 8}   => r.season = Str("Summer")
              /\ r.order_month.v \in {9, 10, 11} => r.season = Str("Fall")

\* a column with December and an unknown month has had its seasons derived
C28_Witness ==
    /\ [order_month |-> Num(12), season |-> Str("Winter")] \in SeasonRows
    /\ [order_month |-> NaN, season |-> NaN] \in SeasonRows

(***************************************************************************)
(* Referential integrity of the store                                      *)
(***************************************************************************)
\* the rows of the table whose column c holds the value v
RowsWith(name, c, v) == {j \in 1..Len(db[name].rows) : db[name].rows[j][c] = v}

\* C29: after a completed load every known restaurant_id of orders is in
\* exactly one row of restaurants and every known customer_id of orders in
\* exactly one row of customers, and the join of orders with restaurants
\* returns each orders row that has a known restaurant_id exactly once (and no
\* other row)
C29_ReferentialIntegrity ==
    db_pc = "done" =>
        /\ \A i \in 1..Len(db["orders"].rows) :
              LET o == db["orders"].rows[i]
              IN  /\ o.restaurant_id # NULL =>
                        Cardinality(RowsWith("restaurants", "restaurant_id",
                                             o.restaurant_id)) = 1
                  /\ o.customer_id # NULL =>
                        Cardinality(RowsWith("customers", "customer_id",
                                             o.customer_id)) = 1
                  /\ Cardinality({p \in load_data(db) : p[1] = i}) =
                        IF o.restaurant_id # NULL THEN 1 ELSE 0

\* a completed load of two orders of one restaurant: restaurants has the
\* restaurant once and the join returns each of the two orders once
C29_Witness ==
    /\ db_pc = "done"
    /\ Len(db["orders"].rows) = 2
    /\ db["orders"].rows[1].restaurant_id # NULL
    /\ db["orders"].rows[1].restaurant_id = db["orders"].rows[2].restaurant_id
    /\ Len(db["restaurants"].rows) = 1
    /\ load_data(db) = {<< 1, 1 >>, << 2, 1 >>}

(***************************************************************************)
(* Properties of the 2025 generator's dates                                *)
(***************************************************************************)
\* a record of the updated frame against the record of the cleaned file it
\* was made from
ShiftedConsistently(old, new, with_season) ==
    LET d == to_datetime(old.order_purchase_date)
        n == new.order_purchase_date
    IN  IF d.k # "ts"
        THEN /\ IsNa(n)
             /\ IsNa(new.order_month)
             /\ IsNa(new.order_month_name)
             /\ IsNa(new.order_year)
             /\ with_season => IsNa(new.season)
        ELSE /\ n.k = "ts"
             /\ n.y = d.y + 6
             /\ n.m = d.m
             /\ n.d = IF d.m = 2 /\ d.d = 29 /\ ~IsLeap(d.y + 6) THEN 28 ELSE d.d
             /\ new.order_month = Num(n.m)
             /\ new.order_month_name = Str(MonthNames[n.m])
             /\ new.order_year = Num(n.y)
             /\ with_season =>
                   /\ new.season = old.season
                   /\ new.season = Str(SeasonOfMonth(n.m))

\* every record of the updated frame, once it is bound
UpdatedConsistently(src, upd) ==
    /\ Len(upd.rows) = Len(src.rows)
    /\ \A i \in 1..Len(src.rows) :
          ShiftedConsistently(src.rows[i], upd.rows[i], HasCol(src, "season"))

\* C30: in the frames update_to_2025 returns, a known date is the date of the
\* cleaned file six years later, in the same month and on the same day (a 29
\* February on the 28th), an unknown date is unknown; order_month,
\* order_month_name and order_year are those of the new date, the season
\* carried over is the season of the new month, and all four are unknown with
\* the date
C30_DateFieldsAfterUpdate ==
    /\ gen_pc \in {"gen_update_xyz", "gen_merge", "gen_save", "gen_saved"} =>
          UpdatedConsistently(gen_abc, abc_2025)
    /\ gen_pc \in {"gen_merge", "gen_save", "gen_saved"} =>
          UpdatedConsistently(gen_xyz, xyz_2025)
    /\ gen_pc = "gen_saved" =>
          /\ UpdatedConsistently(gen_abc, gen_files["abc_2025.csv"])
          /\ UpdatedConsistently(gen_xyz, gen_files["xyz_2025.csv"])

\* a generator run that saved a record of 29 February 2016, now 28 February
\* 2022 and still Winter, and a record without a date
C30_Witness ==
    /\ gen_pc = "gen_saved"
    /\ HasCol(gen_abc, "season")
    /\ \E i \in 1..Len(gen_abc.rows) :
          /\ gen_abc.rows[i].order_purchase_date = Ts(2016, 2, 29)
          /\ gen_files["abc_2025.csv"].rows[i].order_purchase_date = Ts(2022, 2, 28)
          /\ gen_files["abc_2025.csv"].rows[i].season = Str("Winter")
    /\ \E i \in 1..Len(gen_abc.rows) :
          /\ gen_abc.rows[i].order_purchase_date = NaT
          /\ IsNa(gen_files["abc_2025.csv"].rows[i].order_year)

====
